---------------------------- MODULE Spec2Model ----------------------------
(***************************************************************************)
(* A model of fuzzy-tree: the tree linker, the match engine, the tree      *)
(* aggregate (src/src/tree.rs, src/src/path.rs) and the viewport           *)
(* controller (src/src/tui.rs).                                            *)
(*                                                                         *)
(* Strings are sequences of character codes (UTF-8 keeps the code point    *)
(* order, so comparing codes is comparing bytes).  Rust indices are        *)
(* 0-based; a node is named by its 1-based position in `paths`, and 0      *)
(* stands for None.                                                        *)
(***************************************************************************)
EXTENDS Integers, Sequences, FiniteSets, TLC

VARIABLES
    paths,          \* Tree.paths: the flat list of Path records
    n_paths,        \* Tree.n_paths
    n_matches,      \* Tree.n_matches
    n_selected,     \* Tree.n_selected
    last,           \* history: the last operation, with its threshold
                    \* (collapse_over) or 1 / 0 for an index that resolved
                    \* to a node / to None (flip_*)
    offset,         \* Tui.offset
    line_pos,       \* Tui.line_pos
    current_lines,  \* Tui.current_lines
    display_lines,  \* Tui.display_lines
    chars_changed,  \* Tui.chars_changed
    chars,          \* Tui.chars
    curs_pos,       \* Tui.curs_pos
    lines_len,      \* the length of the line list the tree hands to render
    panicked,       \* TRUE once an operation has panicked
    stash_buf,      \* Tui.stash
    filter_text,    \* the query text the tree was last filtered with
    hl_patterns,    \* the patterns split_by_space hands to reduce_patterns
    hl_reduced,     \* the patterns reduce_patterns returns
    hl_basename,    \* the basename match_paths highlights
    hl_idxs,        \* its spans: merge_adjacent_indices(match_indices(..))
    hl_text,        \* its label: wrap_matches_in_color(..)
    argv,           \* the values of the options --n-collapse and --n-lines
    args,           \* Args.n_collapse and Args.n_lines, once computed
    exit_code,      \* <<>> while the process runs, then <<its exit code>>
    stderr,         \* the message written to standard error
    stdout,         \* the characters print_paths has written
    raw_mode        \* TRUE while the terminal is held in raw mode

tree_vars == <<paths, n_paths, n_matches, n_selected>>
tui_vars == <<offset, line_pos, current_lines, display_lines, chars_changed,
              chars, curs_pos, lines_len, panicked, stash_buf, filter_text>>
match_vars == <<hl_patterns, hl_reduced, hl_basename, hl_idxs, hl_text>>
proc_vars == <<argv, args, exit_code, stderr, stdout, raw_mode>>
vars == <<paths, n_paths, n_matches, n_selected, last, offset, line_pos,
          current_lines, display_lines, chars_changed, chars, curs_pos,
          lines_len, panicked, stash_buf, filter_text, hl_patterns,
          hl_reduced, hl_basename, hl_idxs, hl_text, argv, args, exit_code,
          stderr, stdout, raw_mode>>

---------------------------------------------------------------------------
(* Bounds of the model. *)

\* The largest number of entries of a listing under the root (SpecLink).
MaxEntries == 3
\* The largest threshold handed to collapse_over.
MaxThreshold == 2
\* The largest display index handed to flip_open / flip_selected beyond the
\* number of nodes.
MaxIndexSlack == 1
\* The largest number of lines the tree hands to render.
MaxLines == 6
\* The largest viewport line count (display_lines).
MaxDisplayLines == 4
\* The longest query typed.
MaxChars == 2
\* The largest number of patterns handed to reduce_patterns.
MaxPatterns == 2
\* The longest pattern.
MaxPatternLen == 2
\* The longest basename highlighted.
MaxBasenameLen == 3

---------------------------------------------------------------------------
(* Characters and strings. *)

\* std::path::MAIN_SEPARATOR, '/'.
MAIN_SEPARATOR == 47
\* The separator of split_by_space, ' '.
SPACE == 32
\* '.', the name of the root.
DOT == 46

Min(a, b) == IF a < b THEN a ELSE b
Max(a, b) == IF a > b THEN a ELSE b

\* str::cmp / String::cmp: lexicographic order of the byte strings.
RECURSIVE StrLess(_, _)
StrLess(a, b) ==
    IF b = <<>> THEN FALSE
    ELSE IF a = <<>> THEN TRUE
    ELSE IF Head(a) # Head(b) THEN Head(a) < Head(b)
    ELSE StrLess(Tail(a), Tail(b))

\* str::contains(pat): pat occurs in s as a contiguous substring.
Contains(s, pat) ==
    \E i \in 0..(Len(s) - Len(pat)) : SubSeq(s, i + 1, i + Len(pat)) = pat

\* str::split(sep): the pieces of s between occurrences of sep (empty pieces
\* included).
RECURSIVE SplitAcc(_, _, _, _)
SplitAcc(s, sep, cur, acc) ==
    IF s = <<>> THEN Append(acc, cur)
    ELSE IF Head(s) = sep THEN SplitAcc(Tail(s), sep, <<>>, Append(acc, cur))
    ELSE SplitAcc(Tail(s), sep, Append(cur, Head(s)), acc)

Split(s, sep) == SplitAcc(s, sep, <<>>, <<>>)

\* Iterator::filter on a sequence of strings.
RECURSIVE NonEmpty(_)
NonEmpty(ss) ==
    IF ss = <<>> THEN <<>>
    ELSE IF Head(ss) = <<>> THEN NonEmpty(Tail(ss))
    ELSE <<Head(ss)>> \o NonEmpty(Tail(ss))

---------------------------------------------------------------------------
(* The node model (path.rs). *)

\* Path::new: a fresh, unlinked node.
PathNew(pathname, is_dir) ==
    LET components == Split(pathname, MAIN_SEPARATOR) IN
    [ components |-> components,
      parent     |-> 0,
      children   |-> <<>>,
      is_dir     |-> is_dir,
      open       |-> TRUE,
      matched    |-> TRUE,
      match_text |-> components[Len(components)],
      selected   |-> FALSE,
      joined     |-> pathname ]

\* PathBehaviour::len
PathLen(p) == Len(p.components)

\* PathBehaviour::basename
basename(p) == p.components[PathLen(p)]

\* is_child_of as it would be if it compared the lengths only.
is_child_of_ShorterOnly(self, other) == PathLen(other) < PathLen(self)

\* PathBehaviour::is_child_of: other's components are a strict prefix of
\* self's.
is_child_of(self, other) ==
    IF PathLen(other) >= PathLen(self) THEN FALSE
    ELSE SubSeq(self.components, 1, PathLen(other)) = other.components

\* add as it would be if it put the child in front of the parent's children.
add_Prepend(ps, child, parent) ==
    [ps EXCEPT ![parent].children = <<child>> \o @,
               ![child].parent = parent]

\* add(child, parent): push child on parent's children, set child's parent.
add(ps, child, parent) ==
    [ps EXCEPT ![parent].children = Append(@, child),
               ![child].parent = parent]

\* n_descendants as it would be if it counted the immediate children only.
n_descendants_ChildrenOnly(ps, n) == Len(ps[n].children)

\* PathBehaviour::n_descendants
RECURSIVE n_descendants(_, _)
RECURSIVE SumDescendants(_, _)
SumDescendants(ps, cs) ==
    IF cs = <<>> THEN 0
    ELSE n_descendants(ps, Head(cs)) + 1 + SumDescendants(ps, Tail(cs))

n_descendants(ps, n) == SumDescendants(ps, ps[n].children)

---------------------------------------------------------------------------
(* The tree linker (tree.rs). *)

\* peek(stack, i): Some(&stack[i]) when i < stack.len(); here i is 1-based.
peek(stack, i) == IF i <= Len(stack) THEN i ELSE 0

\* _create_tree: the loop of one recursion frame.  i, base, prev are
\* 1-based positions (prev = 0 for None); the result is the position the
\* frame broke at and the list with the links made so far.
RECURSIVE _create_tree(_, _, _, _)
_create_tree(i0, base, prev, stack) ==
    LET i == i0 + 1
        next == peek(stack, i)
    IN
    IF next = 0 THEN [i |-> i, stack |-> stack]
    ELSE IF prev # 0 THEN
        IF is_child_of(stack[next], stack[prev]) THEN
            LET r == _create_tree(i, prev, next, add(stack, next, prev))
            IN _create_tree(r.i - 1, base, next, r.stack)
        ELSE IF is_child_of(stack[next], stack[base]) THEN
            _create_tree(i, base, next, add(stack, next, base))
        ELSE [i |-> i, stack |-> stack]
    ELSE IF is_child_of(stack[next], stack[base]) THEN
        _create_tree(i, base, next, add(stack, next, base))
    ELSE [i |-> i, stack |-> stack]

\* link_paths: link the whole list, starting at the root paths[0].
link_paths(ps) == _create_tree(1, 1, 0, ps).stack


---------------------------------------------------------------------------
(* The match engine (tree.rs). *)

\* The colour markers wrapped around a highlighted span of match_text.
BLUE == -1
RESET == -2

\* split_by_space
split_by_space(text) == NonEmpty(Split(text, SPACE))

\* Vec::sort on strings (insertion into a sorted sequence).
RECURSIVE InsertStr(_, _)
InsertStr(sorted, x) ==
    IF sorted = <<>> THEN <<x>>
    ELSE IF StrLess(x, Head(sorted)) THEN <<x>> \o sorted
    ELSE <<Head(sorted)>> \o InsertStr(Tail(sorted), x)

RECURSIVE SortStrs(_)
SortStrs(ss) ==
    IF ss = <<>> THEN <<>>
    ELSE InsertStr(SortStrs(Tail(ss)), Head(ss))

\* Vec::dedup: drop an element equal to the one before it.
RECURSIVE Dedup(_)
Dedup(ss) ==
    IF Len(ss) <= 1 THEN ss
    ELSE IF ss[1] = ss[2] THEN Dedup(Tail(ss))
    ELSE <<ss[1]>> \o Dedup(Tail(ss))

\* reduce_patterns as it would be without the sort before the dedup.
reduce_patterns_Unsorted(patterns) ==
    LET RECURSIVE keep(_)
        keep(i) ==
            IF i > Len(patterns) THEN <<>>
            ELSE IF \E j \in 1..Len(patterns) :
                        /\ patterns[i] # patterns[j]
                        /\ Contains(patterns[j], patterns[i])
                 THEN keep(i + 1)
            ELSE <<patterns[i]>> \o keep(i + 1)
    IN Dedup(keep(1))

\* reduce_patterns as it would be if it dropped the patterns that contain a
\* different pattern.
reduce_patterns_DropLonger(patterns) ==
    LET RECURSIVE keep(_)
        keep(i) ==
            IF i > Len(patterns) THEN <<>>
            ELSE IF \E j \in 1..Len(patterns) :
                        /\ patterns[i] # patterns[j]
                        /\ Contains(patterns[i], patterns[j])
                 THEN keep(i + 1)
            ELSE <<patterns[i]>> \o keep(i + 1)
    IN Dedup(SortStrs(keep(1)))

\* reduce_patterns: drop the patterns contained in a different pattern,
\* sort, dedup.
reduce_patterns(patterns) ==
    LET rm == { i \in 1..Len(patterns) :
                  \E j \in 1..Len(patterns) :
                      /\ patterns[i] # patterns[j]
                      /\ Contains(patterns[j], patterns[i]) }
        RECURSIVE keep(_)
        keep(i) ==
            IF i > Len(patterns) THEN <<>>
            ELSE IF i \in rm THEN keep(i + 1)
            ELSE <<patterns[i]>> \o keep(i + 1)
    IN Dedup(SortStrs(keep(1)))

\* matches as it would be with `full` false: one pattern is enough.
matches_Any(string, patterns) ==
    \E k \in 1..Len(patterns) : Contains(string, patterns[k])

\* matches(string, patterns, true): every pattern occurs in string.
matches(string, patterns) ==
    \A k \in 1..Len(patterns) : Contains(string, patterns[k])

\* str::match_indices(p): the starts (0-based) of the successive
\* non-overlapping occurrences of p in s, searching on from the end of the
\* occurrence before.
RECURSIVE StrMatchIndices(_, _, _)
StrMatchIndices(s, p, from) ==
    LET starts == { i \in from..(Len(s) - Len(p)) :
                      SubSeq(s, i + 1, i + Len(p)) = p }
    IN IF starts = {} \/ p = <<>> THEN <<>>
       ELSE LET i == CHOOSE x \in starts : \A y \in starts : x <= y
            IN <<i>> \o StrMatchIndices(s, p, i + Len(p))

\* The number of bytes of a character in UTF-8 (characters below U+0800).
Utf8Len(c) == IF c < 128 THEN 1 ELSE 2

\* str::len: the length of a string in bytes.
RECURSIVE StrLen(_)
StrLen(s) == IF s = <<>> THEN 0 ELSE Utf8Len(Head(s)) + StrLen(Tail(s))

\* The byte offset of the character of 0-based index i.
ByteIndex(s, i) == StrLen(SubSeq(s, 1, i))

\* &s[b..]: the characters from byte offset b on.  Every b the model slices
\* at is the end of a range of match_indices, which is a character boundary.
ByteSliceFrom(s, b) ==
    LET i == CHOOSE k \in 0..Len(s) : ByteIndex(s, k) = b
    IN SubSeq(s, i + 1, Len(s))

\* match_indices: the byte ranges [start, end) of the occurrences of every
\* pattern, pattern by pattern.
RECURSIVE match_indices(_, _)
match_indices(patterns, string) ==
    IF patterns = <<>> THEN <<>>
    ELSE LET p == Head(patterns)
             starts == StrMatchIndices(string, p, 0)
         IN [k \in 1..Len(starts) |->
                 [start |-> ByteIndex(string, starts[k]),
                  end   |-> ByteIndex(string, starts[k]) + StrLen(p)]]
            \o match_indices(Tail(patterns), string)

\* The derived Ord of MatchIdx: by start, then by end.
IdxLess(x, y) == x.start < y.start \/ (x.start = y.start /\ x.end < y.end)

RECURSIVE InsertIdx(_, _)
InsertIdx(sorted, x) ==
    IF sorted = <<>> THEN <<x>>
    ELSE IF IdxLess(x, Head(sorted)) THEN <<x>> \o sorted
    ELSE <<Head(sorted)>> \o InsertIdx(Tail(sorted), x)

RECURSIVE SortIdxs(_)
SortIdxs(xs) ==
    IF xs = <<>> THEN <<>>
    ELSE InsertIdx(SortIdxs(Tail(xs)), Head(xs))

\* The loop of merge_adjacent_indices; i is the 0-based loop index.
RECURSIVE MergeLoop(_, _)
MergeLoop(idxs, i) ==
    IF i = Len(idxs) THEN idxs
    ELSE IF idxs[i].end = idxs[i + 1].start THEN
        MergeLoop(SubSeq(idxs, 1, i - 1)
                    \o <<[start |-> idxs[i].start, end |-> idxs[i + 1].end]>>
                    \o SubSeq(idxs, i + 2, Len(idxs)), i)
    ELSE MergeLoop(idxs, i + 1)

\* merge_adjacent_indices
merge_adjacent_indices(idxs) ==
    IF Len(idxs) < 1 THEN idxs ELSE MergeLoop(SortIdxs(idxs), 1)

\* The loop of wrap_matches_in_color over basename.chars().enumerate(): k is
\* the position of the current range in idxs, j the 0-based index of the
\* character, text the string built so far.  j counts characters; the
\* ranges, basename.len() and the slice &basename[j..] count bytes.
RECURSIVE WrapLoop(_, _, _, _, _)
WrapLoop(bname, idxs, k, j, text) ==
    IF j = Len(bname) THEN
        IF idxs[k].end = StrLen(bname) THEN Append(text, RESET) ELSE text
    ELSE LET c == bname[j + 1] IN
        IF j = idxs[k].start THEN
            WrapLoop(bname, idxs, k, j + 1, text \o <<BLUE, c>>)
        ELSE IF j = idxs[k].end THEN
            IF k < Len(idxs) THEN
                WrapLoop(bname, idxs, k + 1, j + 1, text \o <<RESET, c>>)
            ELSE text \o <<RESET>> \o ByteSliceFrom(bname, j)
        ELSE WrapLoop(bname, idxs, k, j + 1, Append(text, c))

\* wrap_matches_in_color
wrap_matches_in_color(bname, idxs) ==
    IF idxs = <<>> THEN bname ELSE WrapLoop(bname, idxs, 1, 0, <<>>)

\* match_stack as it would be without the walk up the parents.
match_stack_NoWalk(ps, node, seen) ==
    [ps |-> [ps EXCEPT ![node].matched = TRUE],
     seen |-> seen \cup {ps[node].joined}]

\* push_seen followed by the recursion of match_stack: mark node matched,
\* remember it, and walk up while the parent has not been seen.  The result
\* is the list and the seen set.
RECURSIVE match_stack(_, _, _)
match_stack(ps, node, seen) ==
    LET ps1 == [ps EXCEPT ![node].matched = TRUE]
        seen1 == seen \cup {ps[node].joined}
        parent == ps[node].parent
    IN IF parent # 0 /\ ps[parent].joined \notin seen1
       THEN match_stack(ps1, parent, seen1 \cup {ps[parent].joined})
       ELSE [ps |-> ps1, seen |-> seen1]

\* The loop of match_paths as it would be if it highlighted the joined path.
RECURSIVE MatchPathsLoop_Joined(_, _, _, _)
MatchPathsLoop_Joined(ps, patterns, i, seen) ==
    IF i > Len(ps) THEN ps
    ELSE IF matches(ps[i].joined, patterns) THEN
        LET bname == ps[i].joined
            idxs == merge_adjacent_indices(match_indices(patterns, bname))
            text == wrap_matches_in_color(bname, idxs)
            r == match_stack(ps, i, seen)
        IN MatchPathsLoop_Joined([r.ps EXCEPT ![i].match_text = text],
                                 patterns, i + 1, r.seen)
    ELSE MatchPathsLoop_Joined(ps, patterns, i + 1, seen)

\* The loop of match_paths over paths[i..].
RECURSIVE MatchPathsLoop(_, _, _, _)
MatchPathsLoop(ps, patterns, i, seen) ==
    IF i > Len(ps) THEN ps
    ELSE IF matches(ps[i].joined, patterns) THEN
        LET bname == basename(ps[i])
            idxs == merge_adjacent_indices(match_indices(patterns, bname))
            text == wrap_matches_in_color(bname, idxs)
            r == match_stack(ps, i, seen)
        IN MatchPathsLoop([r.ps EXCEPT ![i].match_text = text],
                          patterns, i + 1, r.seen)
    ELSE MatchPathsLoop(ps, patterns, i + 1, seen)

\* match_paths
match_paths(ps, patterns) == MatchPathsLoop(ps, patterns, 1, {})

---------------------------------------------------------------------------
(* Listings: the output of the listing command. *)

\* The component names listings are made of: "a", "a-" and "b".  '-' sorts
\* before the separator '/', 'a' and 'b' after it.
Names == { <<97>>, <<97, 45>>, <<98>> }

\* Join components with the separator.
RECURSIVE Join(_)
Join(cs) ==
    IF Len(cs) = 1 THEN cs[1]
    ELSE cs[1] \o <<MAIN_SEPARATOR>> \o Join(Tail(cs))

\* The sequences of k names.
RECURSIVE NameSeqs(_)
NameSeqs(k) ==
    IF k = 0 THEN { <<>> }
    ELSE { Append(s, n) : s \in NameSeqs(k - 1), n \in Names }

\* Every pathname of at most k components.
Pathnames(k) == { Join(s) : s \in UNION { NameSeqs(d) : d \in 1..k } }

\* The pathname of the directory holding x, <<>> for a top-level entry.
Dirname(x) ==
    LET cs == Split(x, MAIN_SEPARATOR) IN
    IF Len(cs) = 1 THEN <<>> ELSE Join(SubSeq(cs, 1, Len(cs) - 1))

\* The listings of at most k entries: sets of pathnames that hold the
\* directory of each of their entries (the listing command lists every
\* directory it descends into).
RECURSIVE Listings(_)
Listings(k) ==
    IF k = 0 THEN { {} }
    ELSE LET smaller == Listings(k - 1) IN
         smaller \cup
         UNION { { S \cup {x} : x \in { y \in Pathnames(k) :
                                  Dirname(y) = <<>> \/ Dirname(y) \in S } } :
                 S \in smaller }

\* Vec::sort on the paths, which Ord for Path orders by `joined`.
RECURSIVE SortPathnames(_)
SortPathnames(S) ==
    IF S = {} THEN <<>>
    ELSE LET m == CHOOSE x \in S : \A y \in S \ {x} : StrLess(x, y)
         IN <<m>> \o SortPathnames(S \ {m})

\* create_paths: one Path per listed line, sorted by `joined`, each with the
\* component "." put in front, and the root "." put first.  A line is a
\* directory when the file system says so: here, when the listing holds an
\* entry inside it.
create_paths(listing) ==
    LET sorted == SortPathnames(listing)
        IsDir(x) == \E y \in listing : Dirname(y) = x
        mk(x) == [PathNew(x, IsDir(x)) EXCEPT !.components = <<<<DOT>>>> \o @]
    IN <<PathNew(<<DOT>>, TRUE)>> \o [i \in 1..Len(sorted) |-> mk(sorted[i])]

---------------------------------------------------------------------------
(* The viewport is idle in the specifications of the tree. *)

TuiIdle ==
    /\ offset = 0
    /\ line_pos = 0
    /\ current_lines = 0
    /\ display_lines = 0
    /\ chars_changed = FALSE
    /\ chars = <<>>
    /\ curs_pos = 0
    /\ lines_len = 0
    /\ panicked = FALSE
    /\ stash_buf = <<>>
    /\ filter_text = <<>>

\* No tree is held.
TreeIdle ==
    /\ paths = <<>>
    /\ n_paths = 0
    /\ n_matches = 0
    /\ n_selected = 0

\* No basename is being highlighted.
MatchIdle ==
    /\ hl_patterns = <<>>
    /\ hl_reduced = <<>>
    /\ hl_basename = <<>>
    /\ hl_idxs = <<>>
    /\ hl_text = <<>>

\* Option<T>: None, and Some(v) as <<v>>.
None == <<>>

\* The process runs, no option has been read and nothing has been written.
ProcIdle ==
    /\ argv = [n_collapse |-> None, n_lines |-> None]
    /\ args = [n_collapse |-> None, n_lines |-> None]
    /\ exit_code = None
    /\ stderr = ""
    /\ stdout = <<>>
    /\ raw_mode = FALSE

---------------------------------------------------------------------------
(* The tree aggregate (tree.rs).  A Tree is the record of its fields; the  *)
(* field `tree`, a second handle on paths[0], is node 1.                   *)

\* Tree::from_paths
from_paths(ps) ==
    [ paths      |-> link_paths(ps),
      n_paths    |-> Len(ps),
      n_matches  |-> Len(ps),
      n_selected |-> 0 ]

\* reset_matched as it would be if it left match_text alone.
reset_matched_KeepText(ps, value) ==
    [i \in 1..Len(ps) |-> [ps[i] EXCEPT !.matched = value]]

\* Tree::reset_matched
reset_matched(ps, value) ==
    [i \in 1..Len(ps) |->
        [ps[i] EXCEPT !.matched = value, !.match_text = basename(ps[i])]]

\* Tree::calc_n_matches
calc_n_matches(ps) == Cardinality({ i \in 1..Len(ps) : ps[i].matched })

\* The re-scan as it would be if it counted the shown nodes only.
CountSelected_Shown(ps) ==
    Cardinality({ i \in 1..Len(ps) : ps[i].selected /\ ps[i].matched })

\* The re-scan of flip_selected.
CountSelected(ps) == Cardinality({ i \in 1..Len(ps) : ps[i].selected })

\* collapse_over as it would be with `>=` for `>`.
collapse_over_AtLeast(t, n) ==
    [t EXCEPT !.paths =
        [i \in 1..Len(t.paths) |->
            IF i >= 2 /\ Len(t.paths[i].children) >= n
            THEN [t.paths[i] EXCEPT !.open = FALSE]
            ELSE t.paths[i]]]

\* Tree::collapse_over: every path but the first whose children number more
\* than n is closed.
collapse_over(t, n) ==
    [t EXCEPT !.paths =
        [i \in 1..Len(t.paths) |->
            IF i >= 2 /\ Len(t.paths[i].children) > n
            THEN [t.paths[i] EXCEPT !.open = FALSE]
            ELSE t.paths[i]]]

\* filter as it would be if it dropped the selection with the matches.
filter_Deselect(t, text) ==
    LET clr == [i \in 1..Len(t.paths) |-> [t.paths[i] EXCEPT !.selected = FALSE]]
    IN IF text = <<>> THEN
           [t EXCEPT !.paths = reset_matched(clr, TRUE),
                     !.n_matches = Len(t.paths),
                     !.n_selected = 0]
       ELSE
           LET ps == match_paths(reset_matched(clr, FALSE),
                                 reduce_patterns(split_by_space(text)))
           IN [t EXCEPT !.paths = ps, !.n_matches = calc_n_matches(ps),
                        !.n_selected = 0]

\* Tree::filter
filter(t, text) ==
    IF text = <<>> THEN
        [t EXCEPT !.paths = reset_matched(t.paths, TRUE),
                  !.n_matches = Len(t.paths)]
    ELSE
        LET ps == match_paths(reset_matched(t.paths, FALSE),
                              reduce_patterns(split_by_space(text)))
        IN [t EXCEPT !.paths = ps, !.n_matches = calc_n_matches(ps)]

\* Tree::ith: the loop, with i and target 0-based as in the code; the result
\* is the node found, or 0 for None.
RECURSIVE IthLoop(_, _, _)
IthLoop(ps, i, target0) ==
    IF i >= Len(ps) THEN 0
    ELSE LET pth == ps[i + 1]
             target == IF ~pth.matched THEN target0 + 1 ELSE target0
         IN IF i = target THEN i + 1
            ELSE IF ~pth.open THEN
                LET n == n_descendants(ps, i + 1)
                IN IthLoop(ps, i + n + 1, target + n)
            ELSE IthLoop(ps, i + 1, target)

\* ith as it would be if it indexed the flat list.
ith_FlatIndex(t, target) == IF target < Len(t.paths) THEN target + 1 ELSE 0

ith(t, target) == IthLoop(t.paths, 0, target)

\* flip_open as it would be if it flipped the directory holding the node.
flip_open_Parent(t, i) ==
    LET pth == ith(t, i) IN
    IF pth # 0 /\ t.paths[pth].parent # 0
    THEN [t EXCEPT !.paths[t.paths[pth].parent].open = ~@]
    ELSE t

\* Tree::flip_open
flip_open(t, i) ==
    LET pth == ith(t, i) IN
    IF pth # 0 THEN [t EXCEPT !.paths[pth].open = ~@] ELSE t

\* flip_selected as it would be if it selected the node whatever it was.
flip_selected_Set(t, i) ==
    LET pth == ith(t, i) IN
    IF pth # 0 THEN
        LET ps == [t.paths EXCEPT ![pth].selected = TRUE]
        IN [t EXCEPT !.paths = ps, !.n_selected = CountSelected(ps)]
    ELSE t

\* Tree::flip_selected: the early return leaves n_selected alone.
flip_selected(t, i) ==
    LET pth == ith(t, i) IN
    IF pth # 0 THEN
        LET ps == [t.paths EXCEPT ![pth].selected = ~@]
        IN [t EXCEPT !.paths = ps, !.n_selected = CountSelected(ps)]
    ELSE t

\* The children as they would be listed without the filter on matched.
MatchedOnly_All(ps, cs) == cs

\* Iterator::filter(|x| x.borrow().matched) on a list of children.
RECURSIVE MatchedOnly(_, _)
MatchedOnly(ps, cs) ==
    IF cs = <<>> THEN <<>>
    ELSE IF ps[Head(cs)].matched THEN <<Head(cs)>> \o MatchedOnly(ps, Tail(cs))
    ELSE MatchedOnly(ps, Tail(cs))

\* The four connector strings of segments_to_string, in ASCII: the
\* vertical bar and the blank of an earlier segment, the branch and the end
\* connector of the last one.
VBAR == "|   "
BLANK == "    "
BRANCH == "|-- "
END == "+-- "

\* segments_to_string as it would be with the last segment drawn like the
\* earlier ones.
segments_to_string_NoLast(segments) ==
    [j \in 1..Len(segments) |->
        IF segments[j] = "Continuation" THEN VBAR ELSE BLANK]

\* segments_to_string: the connector strings, one a segment.
segments_to_string(segments) ==
    IF segments = <<>> THEN <<>>
    ELSE [j \in 1..(Len(segments) - 1) |->
              IF segments[j] = "Continuation" THEN VBAR ELSE BLANK]
         \o << IF segments[Len(segments)] = "Continuation"
               THEN BRANCH ELSE END >>

\* _tree_string: the line of node, then, when node is open, the lines of
\* its matched children.  A line is kept in its parts: the selection mark,
\* the connector segments, the directory glyph and the label; `node` names
\* the node the line is for.
RECURSIVE _tree_string(_, _, _)
RECURSIVE TreeStringChildren(_, _, _, _)
TreeStringChildren(ps, cs, i, segments) ==
    IF i > Len(cs) THEN <<>>
    ELSE _tree_string(ps, cs[i],
             Append(segments, IF i = Len(cs) THEN "End" ELSE "Continuation"))
         \o TreeStringChildren(ps, cs, i + 1, segments)

_tree_string(ps, node, segments) ==
    LET line == [ node     |-> node,
                  sel      |-> IF ps[node].selected THEN "SELECTED" ELSE " ",
                  segments |-> segments,
                  connectors |-> segments_to_string(segments),
                  prefix   |-> IF ps[node].is_dir
                               THEN (IF ps[node].open THEN "DIR_OPEN"
                                                      ELSE "DIR_CLOSED")
                               ELSE "",
                  text     |-> ps[node].match_text ]
    IN <<line>> \o
       (IF ps[node].open
        THEN TreeStringChildren(ps, MatchedOnly(ps, ps[node].children), 1,
                                segments)
        ELSE <<>>)

\* tree_string as it would be without the test on len.
tree_string_Always(ps, len) == _tree_string(ps, 1, <<>>)

\* tree_string
tree_string(ps, len) == IF len > 0 THEN _tree_string(ps, 1, <<>>) ELSE <<>>

\* Tree::as_lines
as_lines(t) == tree_string(t.paths, t.n_matches)

\* The Tree of the current state, and the state a Tree is stored into.
TheTree ==
    [ paths      |-> paths,
      n_paths    |-> n_paths,
      n_matches  |-> n_matches,
      n_selected |-> n_selected ]

SetTree(t) ==
    /\ paths' = t.paths
    /\ n_paths' = t.n_paths
    /\ n_matches' = t.n_matches
    /\ n_selected' = t.n_selected

---------------------------------------------------------------------------
(* SpecLink: link_paths applied to every listing of at most MaxEntries     *)
(* entries.                                                                *)

InitLink ==
    /\ \E listing \in Listings(MaxEntries) : paths = create_paths(listing)
    /\ n_paths = 0
    /\ n_matches = 0
    /\ n_selected = 0
    /\ last = [op |-> "create_paths", arg |-> 0]
    /\ TuiIdle
    /\ MatchIdle
    /\ ProcIdle

\* Tree::from_paths(paths)
FromPaths ==
    /\ last.op = "create_paths"
    /\ SetTree(from_paths(paths))
    /\ last' = [op |-> "from_paths", arg |-> 0]
    /\ UNCHANGED tui_vars
    /\ UNCHANGED match_vars
    /\ UNCHANGED proc_vars

NextLink == FromPaths

SpecLink == InitLink /\ [][NextLink]_vars

---------------------------------------------------------------------------
(* Spec: the tree aggregate under filter, collapse_over, flip_open and     *)
(* flip_selected, from the freshly built tree of each listing below.       *)

\* The listings the trees are built from: a directory with two files; a
\* directory in a directory and a file beside it; and a listing in which
\* "a-" sorts between the directory "a" and its entry.
TreeListings ==
    { { <<97>>, <<97, 47, 97>>, <<97, 47, 98>> },
      { <<97>>, <<97, 47, 98>>, <<97, 47, 98, 47, 97>>, <<98>> },
      { <<97>>, <<97, 45>>, <<97, 47, 98>> } }

\* The largest number of tokens of a query text handed to filter.
MaxTokens == 2

\* The tokens of the query texts: "a", "b" and "/b".
QueryTokens == { <<97>>, <<98>>, <<47, 98>> }

RECURSIVE TokenSeqs(_)
TokenSeqs(k) ==
    IF k = 0 THEN { <<>> }
    ELSE { Append(s, t) : s \in TokenSeqs(k - 1), t \in QueryTokens }

\* The tokens typed with two spaces between one and the next.
RECURSIVE TypeTokens(_)
TypeTokens(ts) ==
    IF ts = <<>> THEN <<>>
    ELSE IF Len(ts) = 1 THEN ts[1]
    ELSE ts[1] \o <<SPACE, SPACE>> \o TypeTokens(Tail(ts))

\* The query texts: the empty text, a text of spaces only, and the texts of
\* one to MaxTokens tokens.
Texts ==
    { <<SPACE>> } \cup
    { TypeTokens(ts) : ts \in UNION { TokenSeqs(k) : k \in 0..MaxTokens } }

\* The thresholds handed to collapse_over.
Thresholds == 0..MaxThreshold

\* The display indices handed to flip_open and flip_selected.
Indices == 0..(Len(paths) - 1 + MaxIndexSlack)

Init ==
    /\ \E listing \in TreeListings :
           /\ paths = link_paths(create_paths(listing))
           /\ n_paths = Len(paths)
           /\ n_matches = Len(paths)
    /\ n_selected = 0
    /\ last = [op |-> "from_paths", arg |-> 0]
    /\ TuiIdle
    /\ MatchIdle
    /\ ProcIdle

\* tree.filter(text)
Filter(text) ==
    /\ SetTree(filter(TheTree, text))
    /\ last' = [op |-> "filter", arg |-> 0]
    /\ UNCHANGED tui_vars
    /\ UNCHANGED match_vars
    /\ UNCHANGED proc_vars

\* tree.collapse_over(n)
CollapseOver(n) ==
    /\ SetTree(collapse_over(TheTree, n))
    /\ last' = [op |-> "collapse_over", arg |-> n]
    /\ UNCHANGED tui_vars
    /\ UNCHANGED match_vars
    /\ UNCHANGED proc_vars

\* tree.flip_open(i)
FlipOpen(i) ==
    /\ SetTree(flip_open(TheTree, i))
    /\ last' = [op |-> "flip_open",
                arg |-> IF ith(TheTree, i) # 0 THEN 1 ELSE 0]
    /\ UNCHANGED tui_vars
    /\ UNCHANGED match_vars
    /\ UNCHANGED proc_vars

\* tree.flip_selected(i)
FlipSelected(i) ==
    /\ SetTree(flip_selected(TheTree, i))
    /\ last' = [op |-> "flip_selected",
                arg |-> IF ith(TheTree, i) # 0 THEN 1 ELSE 0]
    /\ UNCHANGED tui_vars
    /\ UNCHANGED match_vars
    /\ UNCHANGED proc_vars

Next ==
    \/ \E text \in Texts : Filter(text)
    \/ \E n \in Thresholds : CollapseOver(n)
    \/ \E i \in Indices : FlipOpen(i)
    \/ \E i \in Indices : FlipSelected(i)

Spec == Init /\ [][Next]_vars

\* The tokens of SpecFilter: those above and "c", which no listing holds.
FilterTokens == QueryTokens \cup { <<99>> }

RECURSIVE FilterTokenSeqs(_)
FilterTokenSeqs(k) ==
    IF k = 0 THEN { <<>> }
    ELSE { Append(s, t) : s \in FilterTokenSeqs(k - 1), t \in FilterTokens }

FilterTexts ==
    { <<SPACE>> } \cup
    { TypeTokens(ts) : ts \in UNION { FilterTokenSeqs(k) : k \in 0..MaxTokens } }

\* SpecFilter: the same trees under filter, collapse_over and flip_open
\* only: filter reads no selected flag.
NextFilter ==
    \/ \E text \in FilterTexts : Filter(text)
    \/ \E n \in Thresholds : CollapseOver(n)
    \/ \E i \in Indices : FlipOpen(i)

SpecFilter == Init /\ [][NextFilter]_vars

---------------------------------------------------------------------------
(* SpecMatch: the match engine on one basename.  filter splits the query   *)
(* into patterns and reduces them; match_paths computes the spans and the  *)
(* label of the basename of a path that matches.                           *)

\* The characters patterns and basenames are made of: 'a' and 'b'.
Alphabet == { 97, 98 }

\* The strings of k characters.
RECURSIVE Strs(_)
Strs(k) ==
    IF k = 0 THEN { <<>> }
    ELSE { Append(s, c) : s \in Strs(k - 1), c \in Alphabet }

\* The patterns: what split_by_space returns has no empty string.
Patterns == UNION { Strs(k) : k \in 1..MaxPatternLen }

RECURSIVE PatternSeqs(_)
PatternSeqs(k) ==
    IF k = 0 THEN { <<>> }
    ELSE { Append(s, x) : s \in PatternSeqs(k - 1), x \in Patterns }

PatternLists == UNION { PatternSeqs(k) : k \in 0..MaxPatterns }

Basenames == UNION { Strs(k) : k \in 1..MaxBasenameLen }

InitMatch ==
    /\ hl_patterns \in PatternLists
    /\ hl_reduced = <<>>
    /\ hl_basename = <<>>
    /\ hl_idxs = <<>>
    /\ hl_text = <<>>
    /\ last = [op |-> "split_by_space", arg |-> 0]
    /\ TreeIdle
    /\ TuiIdle
    /\ ProcIdle

\* let patterns = reduce_patterns(&patterns)
ReducePatterns ==
    /\ last.op = "split_by_space"
    /\ hl_reduced' = reduce_patterns(hl_patterns)
    /\ last' = [op |-> "reduce_patterns", arg |-> 0]
    /\ UNCHANGED <<hl_patterns, hl_basename, hl_idxs, hl_text>>
    /\ UNCHANGED tree_vars
    /\ UNCHANGED tui_vars
    /\ UNCHANGED proc_vars

\* The body of the loop of match_paths on the basename of a path.
Highlight(bname) ==
    /\ last.op = "reduce_patterns"
    /\ hl_basename' = bname
    /\ hl_idxs' = merge_adjacent_indices(match_indices(hl_reduced, bname))
    /\ hl_text' = wrap_matches_in_color(bname, hl_idxs')
    /\ last' = [op |-> "match_paths", arg |-> 0]
    /\ UNCHANGED <<hl_patterns, hl_reduced>>
    /\ UNCHANGED tree_vars
    /\ UNCHANGED tui_vars
    /\ UNCHANGED proc_vars

NextMatch ==
    \/ ReducePatterns
    \/ \E bname \in Basenames : Highlight(bname)

SpecMatch == InitMatch /\ [][NextMatch]_vars

---------------------------------------------------------------------------
(* C1 *)

\* The ancestors of node k among the nodes listed before it.
PrecedingAncestors(ps, k) ==
    { j \in 1..(k - 1) : is_child_of(ps[k], ps[j]) }

\* The nearest of them: the one listed last.
NearestPrecedingAncestor(ps, k) ==
    CHOOSE j \in PrecedingAncestors(ps, k) :
        \A h \in PrecedingAncestors(ps, k) : h <= j

\* C1: linking correctness.  After link_paths every node but the root has as
\* parent the nearest preceding node that is a proper path-prefix ancestor
\* of it, which is the node of its immediate parent directory.
C1_LinkingCorrect ==
    last.op = "from_paths" =>
        \A k \in 2..Len(paths) :
            /\ paths[k].parent = NearestPrecedingAncestor(paths, k)
            /\ paths[paths[k].parent].components
                   = SubSeq(paths[k].components, 1, PathLen(paths[k]) - 1)

---------------------------------------------------------------------------
(* The viewport controller (tui.rs).  A Tui is the record of its fields;   *)
(* `panicked` is set by an operation that panics.                          *)

\* Tui::new(prompt, display_lines, current_lines), on a terminal of at least
\* display_lines rows.
TuiNew(dl, cl) ==
    [ offset        |-> 0,
      line_pos      |-> 0,
      current_lines |-> cl,
      display_lines |-> dl,
      chars_changed |-> FALSE,
      chars         |-> <<>>,
      curs_pos      |-> 0,
      panicked      |-> FALSE,
      stash         |-> <<>> ]

\* Tui::index
index(t) == t.line_pos + t.offset

\* move_up as it would be without the case of a scrolled window.
move_up_RowOnly(t) ==
    IF t.line_pos + t.offset = 0 THEN t
    ELSE [t EXCEPT !.line_pos = @ - 1]

\* Tui::move_up
move_up(t) ==
    IF t.line_pos + t.offset = 0 THEN t
    ELSE IF t.line_pos = 0 /\ t.offset > 0 THEN [t EXCEPT !.offset = @ - 1]
    ELSE [t EXCEPT !.line_pos = @ - 1]

\* move_down as it would be without the test for the last line.
move_down_PastEnd(t) ==
    IF t.current_lines = 0 THEN t
    ELSE IF t.line_pos = t.display_lines - 3 THEN [t EXCEPT !.offset = @ + 1]
    ELSE [t EXCEPT !.line_pos = @ + 1]

\* move_down as it would be with the bottom row taken one row too low.
move_down_RowBelow(t) ==
    IF t.current_lines = 0 THEN t
    ELSE IF t.line_pos + t.offset = t.current_lines - 1 THEN t
    ELSE IF t.line_pos = t.display_lines - 2 THEN [t EXCEPT !.offset = @ + 1]
    ELSE [t EXCEPT !.line_pos = @ + 1]

\* Tui::move_down
move_down(t) ==
    IF t.current_lines = 0 THEN t
    ELSE IF t.line_pos + t.offset = t.current_lines - 1 THEN t
    ELSE IF t.line_pos = t.display_lines - 3 THEN [t EXCEPT !.offset = @ + 1]
    ELSE [t EXCEPT !.line_pos = @ + 1]

\* Tui::page_up
page_up(t) ==
    IF t.offset >= t.display_lines THEN [t EXCEPT !.offset = @ - t.display_lines]
    ELSE IF t.offset = 0 THEN [t EXCEPT !.line_pos = 0]
    ELSE [t EXCEPT !.offset = 0]

\* page_down as it would be if it always jumped by a full window.
page_down_NoSnap(t) ==
    IF t.current_lines = 0 THEN t
    ELSE [t EXCEPT !.offset = @ + t.display_lines]

\* Tui::page_down
page_down(t) ==
    IF t.current_lines = 0 THEN t
    ELSE IF t.current_lines <= t.offset + t.display_lines THEN
        [t EXCEPT !.offset = t.current_lines - 1, !.line_pos = 0]
    ELSE
        LET t1 == [t EXCEPT !.offset = @ + t.display_lines] IN
        IF index(t1) >= t1.current_lines THEN
            LET diff == index(t1) - t1.current_lines + 1
            IN [t1 EXCEPT !.line_pos = @ - Min(t1.line_pos, diff)]
        ELSE t1

\* Tui::move_left
move_left(t) ==
    IF t.curs_pos > 0 THEN [t EXCEPT !.curs_pos = @ - 1] ELSE t

\* move_right as it would be if it did not look at the length of chars.
move_right_Unchecked(t) == [t EXCEPT !.curs_pos = @ + 1]

\* Tui::move_right
move_right(t) ==
    IF t.curs_pos < Len(t.chars) THEN [t EXCEPT !.curs_pos = @ + 1] ELSE t

\* Tui::home
home(t) == [t EXCEPT !.curs_pos = 0]

\* Tui::end
end(t) == [t EXCEPT !.curs_pos = Len(t.chars)]

\* Vec::insert(i, c), i 0-based.
VecInsert(v, i, c) == SubSeq(v, 1, i) \o <<c>> \o SubSeq(v, i + 1, Len(v))

\* Vec::remove(i), i 0-based.
VecRemove(v, i) == SubSeq(v, 1, i) \o SubSeq(v, i + 2, Len(v))

\* Tui::insert_char
insert_char(t, c) ==
    [t EXCEPT !.chars = VecInsert(@, t.curs_pos, c),
              !.curs_pos = @ + 1,
              !.chars_changed = TRUE]

\* Tui::backspace
backspace(t) ==
    IF t.curs_pos > 0 THEN
        [t EXCEPT !.chars = VecRemove(@, t.curs_pos - 1),
                  !.curs_pos = @ - 1,
                  !.chars_changed = TRUE]
    ELSE t

\* Tui::delete
delete(t) ==
    IF t.curs_pos < Len(t.chars) THEN
        [t EXCEPT !.chars = VecRemove(@, t.curs_pos), !.chars_changed = TRUE]
    ELSE t

\* Tui::move_left_word: the loop; reading chars[curs_pos - i] beyond the
\* end of chars panics.
RECURSIVE MoveLeftWordLoop(_, _)
MoveLeftWordLoop(t, i) ==
    IF i >= t.curs_pos THEN t
    ELSE IF t.curs_pos - i >= Len(t.chars) THEN [t EXCEPT !.panicked = TRUE]
    ELSE IF t.chars[t.curs_pos - i + 1] = SPACE THEN [t EXCEPT !.curs_pos = i]
    ELSE MoveLeftWordLoop(t, i + 1)

\* Tui::move_left_word
move_left_word(t) ==
    IF t.curs_pos > 0 THEN MoveLeftWordLoop(t, 0) ELSE t

\* Vec::reverse
RECURSIVE Reverse(_)
Reverse(v) ==
    IF v = <<>> THEN <<>> ELSE Append(Reverse(Tail(v)), Head(v))

\* Tui::word_stash: the loop, on the characters cs, the local curs_pos cp
\* (0-based), the characters popped and seen_char.  chars[cp] beyond the end
\* panics; `curs_pos -= 1` at 0 panics where overflow is checked, and where
\* it wraps the next chars[curs_pos] panics.
RECURSIVE WordStashLoop(_, _, _, _)
WordStashLoop(cs, cp, popped, seen) ==
    IF cp >= Len(cs) THEN [panicked |-> TRUE]
    ELSE IF cs[cp + 1] = SPACE /\ seen THEN
        [panicked |-> FALSE, chars |-> cs, curs_pos |-> cp + 1,
         popped |-> popped]
    ELSE LET c == cs[cp + 1]
             cs1 == VecRemove(cs, cp)
             popped1 == Append(popped, c)
         IN IF cp = 0 THEN [panicked |-> TRUE]
            ELSE IF cp - 1 = 0 THEN
                [panicked |-> FALSE, chars |-> VecRemove(cs1, 0),
                 curs_pos |-> 0, popped |-> Append(popped1, cs1[1])]
            ELSE WordStashLoop(cs1, cp - 1, popped1, seen \/ c # SPACE)

\* Tui::word_stash
word_stash(t) ==
    IF t.curs_pos < 1 THEN t
    ELSE LET r == WordStashLoop(t.chars, t.curs_pos - 1, <<>>, FALSE)
         IN IF r.panicked THEN [t EXCEPT !.panicked = TRUE]
            ELSE [t EXCEPT !.chars = r.chars,
                           !.chars_changed = TRUE,
                           !.stash = Reverse(r.popped),
                           !.curs_pos = r.curs_pos]

\* stash as it would be if it cut the text from the cursor to the end.
stash_ToEnd(t) ==
    [t EXCEPT !.stash = SubSeq(t.chars, t.curs_pos + 1, Len(t.chars)),
              !.chars = SubSeq(t.chars, 1, t.curs_pos),
              !.chars_changed = TRUE]

\* Tui::stash
stash(t) ==
    [t EXCEPT !.stash = SubSeq(t.chars, 1, t.curs_pos),
              !.chars = SubSeq(t.chars, t.curs_pos + 1, Len(t.chars)),
              !.curs_pos = 0,
              !.chars_changed = TRUE]

\* pop as it would be if it emptied the stash.
pop_TakeStash(t) ==
    [t EXCEPT !.curs_pos = @ + Len(t.stash),
              !.chars = SubSeq(t.chars, 1, t.curs_pos) \o t.stash
                        \o SubSeq(t.chars, t.curs_pos + 1, Len(t.chars)),
              !.stash = <<>>]

\* Tui::pop
pop(t) ==
    [t EXCEPT !.curs_pos = @ + Len(t.stash),
              !.chars = SubSeq(t.chars, 1, t.curs_pos) \o t.stash
                        \o SubSeq(t.chars, t.curs_pos + 1, Len(t.chars))]

\* adjust_offset as it would be if it left the offset alone.
adjust_offset_Keep(t, new_len) == t

\* Tui::adjust_offset
adjust_offset(t, new_len) ==
    IF new_len < t.current_lines THEN
        [t EXCEPT !.offset = @ - Min(t.offset, t.current_lines - new_len)]
    ELSE t

\* Tui::print_body on a list of len lines: the slice lines[offset..] panics
\* when offset is beyond the end of the list.
print_body(t, len) ==
    IF t.offset > len THEN [t EXCEPT !.panicked = TRUE] ELSE t

\* Tui::render on a list of len lines.
render(t, len) ==
    LET t1 == IF t.chars_changed /\ index(t) >= len THEN
                  LET a == adjust_offset(t, len)
                  IN [a EXCEPT !.line_pos = Min(@, Max(1, len) - 1)]
              ELSE t
        t2 == print_body([t1 EXCEPT !.current_lines = len], len)
    IN IF t2.panicked THEN t2 ELSE [t2 EXCEPT !.chars_changed = FALSE]

\* The Tui of the current state, and the state a Tui is stored into.
TheTui ==
    [ offset        |-> offset,
      line_pos      |-> line_pos,
      current_lines |-> current_lines,
      display_lines |-> display_lines,
      chars_changed |-> chars_changed,
      chars         |-> chars,
      curs_pos      |-> curs_pos,
      panicked      |-> panicked,
      stash         |-> stash_buf ]

SetTui(t) ==
    /\ offset' = t.offset
    /\ line_pos' = t.line_pos
    /\ current_lines' = t.current_lines
    /\ display_lines' = t.display_lines
    /\ chars_changed' = t.chars_changed
    /\ chars' = t.chars
    /\ curs_pos' = t.curs_pos
    /\ panicked' = t.panicked
    /\ stash_buf' = t.stash

---------------------------------------------------------------------------
(* SpecTui: the viewport in the event loop.  Every key event runs one      *)
(* operation and then one render of the lines of the tree.  The tree is    *)
(* seen through the number of its lines, lines_len: a filter (run before   *)
(* the render when the query changed) may leave any number of lines.       *)

\* The characters typed: 'a'.
TypedChars == { 97 }

InitTui ==
    /\ \E dl \in 3..MaxDisplayLines, cl \in 1..MaxLines :
           /\ offset = TuiNew(dl, cl).offset
           /\ line_pos = TuiNew(dl, cl).line_pos
           /\ current_lines = TuiNew(dl, cl).current_lines
           /\ display_lines = TuiNew(dl, cl).display_lines
           /\ chars_changed = TuiNew(dl, cl).chars_changed
           /\ chars = TuiNew(dl, cl).chars
           /\ curs_pos = TuiNew(dl, cl).curs_pos
           /\ panicked = TuiNew(dl, cl).panicked
           /\ stash_buf = TuiNew(dl, cl).stash
           /\ lines_len \in 1..cl
    /\ filter_text = <<>>
    /\ last = [op |-> "new", arg |-> 0]
    /\ TreeIdle
    /\ MatchIdle
    /\ ProcIdle

\* The loop is waiting for a key: the lines have been rendered.
AtKey == last.op = "render" /\ ~panicked

\* A key that runs the viewport operation taking the Tui to t.  last.arg
\* records whether the operation changed the content of the query.
Key(name, t) ==
    /\ AtKey
    /\ SetTui(t)
    /\ last' = [op |-> name, arg |-> IF t.chars # chars THEN 1 ELSE 0]
    /\ UNCHANGED <<lines_len, filter_text>>
    /\ UNCHANGED tree_vars
    /\ UNCHANGED match_vars
    /\ UNCHANGED proc_vars

MoveUp == Key("move_up", move_up(TheTui))
MoveDown == Key("move_down", move_down(TheTui))
PageUp == Key("page_up", page_up(TheTui))
PageDown == Key("page_down", page_down(TheTui))
MoveLeft == Key("move_left", move_left(TheTui))
MoveRight == Key("move_right", move_right(TheTui))
Home == Key("home", home(TheTui))
End == Key("end", end(TheTui))
InsertChar(c) == Len(chars) < MaxChars /\ Key("insert_char", insert_char(TheTui, c))
Backspace == Key("backspace", backspace(TheTui))
Delete == Key("delete", delete(TheTui))

\* The end of a loop iteration: the tree is filtered with the query when the
\* query is marked changed,
\* and its lines are rendered.  last.arg records the case of a changed query
\* and a list that shrank to at most index() lines.
Render ==
    /\ last.op # "render"
    /\ ~panicked
    /\ IF chars_changed
       THEN lines_len' \in 0..MaxLines
       ELSE lines_len' = lines_len
    /\ filter_text' = IF chars_changed THEN chars ELSE filter_text
    /\ SetTui(render(TheTui, lines_len'))
    /\ last' = [op |-> "render",
                arg |-> IF /\ chars_changed
                           /\ lines_len' < index(TheTui) + 1
                           /\ lines_len' < current_lines
                        THEN 1 ELSE 0]
    /\ UNCHANGED tree_vars
    /\ UNCHANGED match_vars
    /\ UNCHANGED proc_vars

NextTui ==
    \/ MoveUp
    \/ MoveDown
    \/ PageUp
    \/ PageDown
    \/ MoveLeft
    \/ MoveRight
    \/ Home
    \/ End
    \/ \E c \in TypedChars : InsertChar(c)
    \/ Backspace
    \/ Delete
    \/ Render

SpecTui == InitTui /\ [][NextTui]_vars

---------------------------------------------------------------------------
(* SpecQuery: the query buffer in the event loop, on a window of one row   *)
(* over a list of one line.                                                *)

\* The characters typed into the query: 'a' and the space.
QueryChars == { 97, SPACE }

InitQuery ==
    /\ offset = TuiNew(3, 1).offset
    /\ line_pos = TuiNew(3, 1).line_pos
    /\ current_lines = TuiNew(3, 1).current_lines
    /\ display_lines = TuiNew(3, 1).display_lines
    /\ chars_changed = TuiNew(3, 1).chars_changed
    /\ chars = TuiNew(3, 1).chars
    /\ curs_pos = TuiNew(3, 1).curs_pos
    /\ panicked = TuiNew(3, 1).panicked
    /\ stash_buf = TuiNew(3, 1).stash
    /\ lines_len = 1
    /\ filter_text = <<>>
    /\ last = [op |-> "new", arg |-> 0]
    /\ TreeIdle
    /\ MatchIdle
    /\ ProcIdle

MoveLeftWord == Key("move_left_word", move_left_word(TheTui))
WordStash == Key("word_stash", word_stash(TheTui))
Stash == Key("stash", stash(TheTui))
Pop ==
    /\ Len(chars) + Len(stash_buf) <= MaxChars
    /\ Key("pop", pop(TheTui))

NextQuery ==
    \/ MoveLeft
    \/ MoveRight
    \/ MoveLeftWord
    \/ Home
    \/ End
    \/ \E c \in QueryChars : InsertChar(c)
    \/ Backspace
    \/ Delete
    \/ WordStash
    \/ Stash
    \/ Pop
    \/ Render

SpecQuery == InitQuery /\ [][NextQuery]_vars

---------------------------------------------------------------------------
(* Notions the claims about the tree are stated with. *)

\* The ancestors of node k: its parent, the parent's parent, up to the root.
RECURSIVE Ancestors(_, _)
Ancestors(ps, k) ==
    IF ps[k].parent = 0 THEN {}
    ELSE {ps[k].parent} \cup Ancestors(ps, ps[k].parent)

Descendants(ps, k) == { j \in 1..Len(ps) : k \in Ancestors(ps, j) }

\* The tokens of a query text: its maximal runs of characters other than
\* the space.
TokenSet(text) ==
    { SubSeq(text, ij[1], ij[2]) : ij \in
        { ij \in (1..Len(text)) \X (1..Len(text)) :
            /\ ij[1] <= ij[2]
            /\ \A c \in ij[1]..ij[2] : text[c] # SPACE
            /\ (ij[1] = 1 \/ text[ij[1] - 1] = SPACE)
            /\ (ij[2] = Len(text) \/ text[ij[2] + 1] = SPACE) } }

\* Node k carries a highlight.
Highlighted(ps, k) ==
    \E c \in 1..Len(ps[k].match_text) : ps[k].match_text[c] = BLUE

\* Node k is matched, carries a highlight, and its parent is matched although
\* another child of that parent is not: the parent is shown for k's sake.
ShownForChild(ps, k) ==
    /\ ps[k].matched
    /\ Highlighted(ps, k)
    /\ ps[k].parent # 0
    /\ ps[ps[k].parent].matched
    /\ \E j \in 1..Len(ps) : ps[j].parent = ps[k].parent /\ ~ps[j].matched

\* The nodes as_lines() shows, in order.
LineNodes == [i \in 1..Len(as_lines(TheTree)) |-> as_lines(TheTree)[i].node]

---------------------------------------------------------------------------
(* C2 *)

\* C2: ancestor visibility.  In every state reached by filter,
\* collapse_over, flip_open and flip_selected, every ancestor of a matched
\* node is matched.
C2_AncestorVisibility ==
    \A k \in 1..Len(paths) :
        paths[k].matched => \A a \in Ancestors(paths, k) : paths[a].matched

\* A filter left a directory shown only for the sake of one of its entries,
\* and a flip_open followed.
C2_Witness ==
    /\ last = [op |-> "flip_open", arg |-> 1]
    /\ \E k \in 1..Len(paths) : ShownForChild(paths, k)

---------------------------------------------------------------------------
(* C3 *)

\* Some path among node k and its descendants contains every token.
MatchesBelow(ps, k, tokens) ==
    \E j \in {k} \cup Descendants(ps, k) :
        \A t \in tokens : Contains(ps[j].joined, t)

\* C3: filter result.  From every state, whatever filter ran before,
\* filter(text) with a text of at least one token leaves a node matched
\* exactly when its own joined path, or that of one of its descendants,
\* contains every token of the text.
C3_FilterResult ==
    \A text \in Texts :
        TokenSet(text) # {} =>
            LET after == filter(TheTree, text).paths
                tokens == TokenSet(text)
            IN \A k \in 1..Len(paths) :
                   after[k].matched <=> MatchesBelow(paths, k, tokens)

\* A filter has just left a directory shown only for the sake of one of its
\* entries, with another entry of it hidden.
C3_Witness ==
    /\ last.op = "filter"
    /\ \E k \in 1..Len(paths) : ShownForChild(paths, k)

---------------------------------------------------------------------------
(* C4 *)

\* C4: index resolution equals the display traversal.  For every line i of
\* as_lines(), ith(i) is the node of that line, and flip_open(i) and
\* flip_selected(i) toggle the flag of that node and of no other.
C4_IthIsDisplayLine ==
    \A i \in 0..(Len(LineNodes) - 1) :
        LET node == LineNodes[i + 1] IN
        /\ ith(TheTree, i) = node
        /\ flip_open(TheTree, i).paths = [paths EXCEPT ![node].open = ~@]
        /\ flip_selected(TheTree, i).paths
               = [paths EXCEPT ![node].selected = ~@]

\* A flip has resolved a node while some line shows a node whose position in
\* the flat list differs from the line number, because a closed directory
\* with an entry that has entries of its own comes before it.
C4_Witness ==
    /\ last = [op |-> "flip_selected", arg |-> 1]
    /\ \E i \in 1..Len(LineNodes) :
          /\ LineNodes[i] # i
          /\ \E j \in 1..(i - 1) :
                /\ ~paths[LineNodes[j]].open
                /\ n_descendants(paths, LineNodes[j]) >= 2

---------------------------------------------------------------------------
(* C5 *)

\* C5: an out-of-range index is a no-op.  flip_open(i) and flip_selected(i)
\* with i at or beyond the number of lines of as_lines() resolve no node and
\* leave every flag of every node and n_selected as they were.
C5_OutOfRangeNoOp ==
    \A i \in Indices :
        i >= Len(LineNodes) =>
            /\ flip_open(TheTree, i) = TheTree
            /\ flip_selected(TheTree, i) = TheTree

\* flip_selected has just been handed an index that resolved to no node,
\* while nodes are selected and fewer lines are shown than there are nodes.
C5_Witness ==
    /\ last = [op |-> "flip_selected", arg |-> 0]
    /\ n_selected > 0
    /\ Len(LineNodes) > 0
    /\ Len(LineNodes) < Len(paths)

---------------------------------------------------------------------------
(* C6 *)

\* C6: selection count.  n_selected is the number of nodes with selected
\* set, whatever sequence of operations led here.
C6_SelectionCount ==
    n_selected = Cardinality({ k \in 1..Len(paths) : paths[k].selected })

\* Two nodes are selected, one of them hidden by the filter that ran last.
C6_Witness ==
    /\ last.op = "filter"
    /\ n_selected >= 2
    /\ \E k \in 1..Len(paths) : paths[k].selected /\ ~paths[k].matched
    /\ \E k \in 1..Len(paths) : paths[k].selected /\ paths[k].matched

---------------------------------------------------------------------------
(* C9 *)

\* Node k is matched and every ancestor of it is open.
Displayed(ps, k) ==
    ps[k].matched /\ \A a \in Ancestors(ps, k) : ps[a].open

\* The position of child c in the children of its parent.
ChildPos(ps, c) ==
    CHOOSE i \in 1..Len(ps[ps[c].parent].children) :
        ps[ps[c].parent].children[i] = c

\* The node on the way from w down to u that is a child of w.
BranchTo(ps, w, u) ==
    CHOOSE c \in {u} \cup Ancestors(ps, u) : ps[c].parent = w

\* u comes before v in the depth-first preorder with children in stored
\* order: u is an ancestor of v, or below their nearest common ancestor the
\* branch to u is stored before the branch to v.
PreorderBefore(ps, u, v) ==
    \/ u \in Ancestors(ps, v)
    \/ /\ v \notin Ancestors(ps, u)
       /\ u # v
       /\ LET common == Ancestors(ps, u) \cap Ancestors(ps, v)
              w == CHOOSE x \in common :
                       \A y \in common : y = x \/ y \in Ancestors(ps, x)
          IN ChildPos(ps, BranchTo(ps, w, u)) < ChildPos(ps, BranchTo(ps, w, v))

\* C9: display traversal.  With at least one node matched, as_lines() holds
\* exactly one line for each node that is matched and has every ancestor
\* open, in depth-first preorder with children in stored order.
C9_DisplayTraversal ==
    (\E k \in 1..Len(paths) : paths[k].matched) =>
        /\ { LineNodes[i] : i \in 1..Len(LineNodes) }
               = { k \in 1..Len(paths) : Displayed(paths, k) }
        /\ \A i, j \in 1..Len(LineNodes) :
               i < j => PreorderBefore(paths, LineNodes[i], LineNodes[j])

\* A matched directory with a matched entry has just been closed, so its
\* entries are not shown, while a line follows the directory's line.
C9_Witness ==
    /\ last = [op |-> "flip_open", arg |-> 1]
    /\ \E i \in 1..(Len(LineNodes) - 1) :
          /\ ~paths[LineNodes[i]].open
          /\ \E c \in Descendants(paths, LineNodes[i]) : paths[c].matched

---------------------------------------------------------------------------
(* C10 *)

---------------------------------------------------------------------------
(* C7 *)

\* C7 as claimed: when the query was edited and render receives a list that
\* shrank to M < index() + 1 lines, M = 0 included, render does not panic
\* and index() < M afterwards.
C7_ClampBelowM ==
    (last = [op |-> "render", arg |-> 1]) =>
        ~panicked /\ offset + line_pos < current_lines

\* C7 as amended: in that case render does not panic and afterwards
\* index() < M when M >= 1, and index() = 0 when M = 0.
C7_ClampBelowMOrZero ==
    (last = [op |-> "render", arg |-> 1]) =>
        /\ ~panicked
        /\ offset + line_pos < Max(1, current_lines)

\* A render has just clamped a scrolled viewport whose highlighted row was
\* not the top one onto a shorter, non-empty list.
C7_Witness ==
    /\ last = [op |-> "render", arg |-> 1]
    /\ current_lines >= 2
    /\ offset > 0
    /\ line_pos > 0

---------------------------------------------------------------------------
(* C8 *)

\* C8: row in window.  With a window height of at least 3, after any
\* sequence of moves, pages, query edits and renders,
\* 0 <= line_pos < window_height - 2.
C8_RowInWindow ==
    display_lines >= 3 => (0 <= line_pos /\ line_pos < display_lines - 2)

\* The highlighted row is the bottom row of a window of two rows, and the
\* list is scrolled.
C8_Witness ==
    /\ last.op = "render"
    /\ display_lines >= 4
    /\ line_pos = display_lines - 3
    /\ offset > 0

---------------------------------------------------------------------------
(* C11 *)

\* The positions (0-based) of string that lie in an occurrence of one of
\* the patterns, the occurrences of one pattern being the successive ones
\* a search from left to right finds.
OccurrencePositions(patterns, string) ==
    { j \in 0..(Len(string) - 1) :
        \E k \in 1..Len(patterns) :
            LET starts == StrMatchIndices(string, patterns[k], 0)
            IN \E n \in 1..Len(starts) :
                   starts[n] <= j /\ j < starts[n] + Len(patterns[k]) }

\* The positions the spans cover.
SpanPositions(idxs) ==
    UNION { idxs[k].start..(idxs[k].end - 1) : k \in 1..Len(idxs) }

\* C11: highlight merge.  The spans computed for a basename from a reduced
\* pattern set are sorted, pairwise non-overlapping and non-adjacent, and
\* cover exactly the positions of the occurrences of the patterns.
C11_HighlightMerge ==
    (last.op = "match_paths") =>
        /\ \A k \in 1..(Len(hl_idxs) - 1) :
               hl_idxs[k].end < hl_idxs[k + 1].start
        /\ SpanPositions(hl_idxs) =
               OccurrencePositions(hl_reduced, hl_basename)

---------------------------------------------------------------------------
(* C12 *)

\* The permutations of a list.
PermutationsOf(ss) ==
    { [i \in 1..Len(ss) |-> ss[f[i]]] :
        f \in { g \in [1..Len(ss) -> 1..Len(ss)] :
                  \A i, j \in 1..Len(ss) : g[i] = g[j] => i = j } }

\* The patterns of a list that are not a substring of a different pattern
\* of the list.
Maximal(ss) ==
    { ss[i] : i \in { h \in 1..Len(ss) :
                        \A j \in 1..Len(ss) :
                            ss[j] = ss[h] \/ ~Contains(ss[j], ss[h]) } }

\* C12: pattern reduction.  reduce_patterns(P) holds exactly the patterns
\* of P that are not a substring of a different pattern of P, each once;
\* it is the same for every permutation of P, and reducing it again
\* changes nothing.
C12_PatternReduction ==
    (last.op \in {"reduce_patterns", "match_paths"}) =>
        /\ { hl_reduced[i] : i \in 1..Len(hl_reduced) } = Maximal(hl_patterns)
        /\ \A i, j \in 1..Len(hl_reduced) :
               hl_reduced[i] = hl_reduced[j] => i = j
        /\ \A q \in PermutationsOf(hl_patterns) :
               reduce_patterns(q) = hl_reduced
        /\ reduce_patterns(hl_reduced) = hl_reduced

\* A list out of order, with a duplicate or a pattern inside another one,
\* has been reduced.
C12_Witness ==
    /\ last.op = "reduce_patterns"
    /\ Len(hl_patterns) >= 2
    /\ Len(hl_reduced) < Len(hl_patterns)
    /\ StrLess(hl_patterns[2], hl_patterns[1])

---------------------------------------------------------------------------
(* C13 *)

\* C13: empty filter.  From every state, whatever the query before and
\* whatever the open and selected flags, filter("") leaves every node
\* matched, every label the plain basename, and n_matches = n_paths.
C13_EmptyFilter ==
    LET after == filter(TheTree, <<>>)
    IN /\ \A k \in 1..Len(paths) :
              /\ after.paths[k].matched
              /\ after.paths[k].match_text = basename(paths[k])
              /\ ~Highlighted(after.paths, k)
       /\ after.n_matches = after.n_paths

\* The state filter("") is applied to has a hidden node, a highlighted
\* label, a closed node and a selected node.
C13_Witness ==
    /\ \E k \in 1..Len(paths) : ~paths[k].matched
    /\ \E k \in 1..Len(paths) : Highlighted(paths, k)
    /\ \E k \in 1..Len(paths) : ~paths[k].open
    /\ \E k \in 1..Len(paths) : paths[k].selected

---------------------------------------------------------------------------
(* C14 *)

\* C14: no-match filter.  From every state, if no joined path contains
\* every token of the text, then after filter(text) no node is matched, the
\* root included, n_matches is 0 and as_lines() is empty.
C14_NoMatchFilter ==
    \A text \in FilterTexts :
        (~\E k \in 1..Len(paths) :
              \A t \in TokenSet(text) : Contains(paths[k].joined, t)) =>
            LET after == filter(TheTree, text)
            IN /\ \A k \in 1..Len(paths) : ~after.paths[k].matched
               /\ after.n_matches = 0
               /\ as_lines(after) = <<>>

\* A filter has just left no node matched.
C14_Witness ==
    /\ last.op = "filter"
    /\ Len(paths) > 1
    /\ \A k \in 1..Len(paths) : ~paths[k].matched
    /\ as_lines(TheTree) = <<>>

---------------------------------------------------------------------------
(* C15 *)

\* A label without its colour markers.
RECURSIVE StripMarkers(_)
StripMarkers(label) ==
    IF label = <<>> THEN <<>>
    ELSE IF Head(label) \in {BLUE, RESET} THEN StripMarkers(Tail(label))
    ELSE <<Head(label)>> \o StripMarkers(Tail(label))

\* The positions (0-based, markers not counted) of the characters of a
\* label that stand between a BLUE and the next RESET.
RECURSIVE HighlightedFrom(_, _, _)
HighlightedFrom(label, pos, inside) ==
    IF label = <<>> THEN {}
    ELSE IF Head(label) = BLUE THEN HighlightedFrom(Tail(label), pos, TRUE)
    ELSE IF Head(label) = RESET THEN HighlightedFrom(Tail(label), pos, FALSE)
    ELSE (IF inside THEN {pos} ELSE {})
         \cup HighlightedFrom(Tail(label), pos + 1, inside)

HighlightedPositions(label) == HighlightedFrom(label, 0, FALSE)

\* Position j of string lies in an occurrence of one of the tokens.
InOccurrence(tokens, string, j) ==
    \E t \in tokens :
        \E i \in 0..(Len(string) - Len(t)) :
            /\ SubSeq(string, i + 1, i + Len(t)) = t
            /\ i <= j
            /\ j < i + Len(t)

---------------------------------------------------------------------------
(* C16 *)

\* The depth of node k: the number of its ancestors.
Depth(ps, k) == Cardinality(Ancestors(ps, k))

\* The node at depth j on the way from the root to node k.
PathNode(ps, k, j) ==
    CHOOSE a \in {k} \cup Ancestors(ps, k) : Depth(ps, a) = j

\* Node c is the last of the matched children of its parent.
LastMatchedChild(ps, c) ==
    LET cs == ps[ps[c].parent].children
    IN \A i \in 1..Len(cs) :
           (ps[cs[i]].matched /\ cs[i] # c) => i < ChildPos(ps, c)

\* C16: connector rendering.  In every reachable state, the line of a node
\* at depth d has d connectors, none for the root; the last is the end
\* connector if the node is the last matched child of its parent and the
\* branch connector otherwise; an earlier one is blank if the ancestor at
\* its depth is the last matched child of its own parent and the vertical
\* bar otherwise.
C16_ConnectorRendering ==
    LET lines == as_lines(TheTree)
    IN \A i \in 1..Len(lines) :
           LET k == lines[i].node
               d == Depth(paths, k)
               cn == lines[i].connectors
           IN /\ Len(cn) = d
              /\ d >= 1 =>
                     cn[d] = IF LastMatchedChild(paths, k) THEN END
                             ELSE BRANCH
              /\ \A j \in 1..(d - 1) :
                     cn[j] = IF LastMatchedChild(paths, PathNode(paths, k, j))
                             THEN BLANK ELSE VBAR

\* A node at depth 2 or more is displayed below an ancestor that is drawn
\* as the last child because the sibling after it is hidden.
C16_Witness ==
    LET lines == as_lines(TheTree)
    IN \E i \in 1..Len(lines) :
           LET k == lines[i].node
           IN /\ Depth(paths, k) >= 2
              /\ \E a \in Ancestors(paths, k) :
                     /\ paths[a].parent # 0
                     /\ LastMatchedChild(paths, a)
                     /\ \E j \in 1..Len(paths) :
                            /\ paths[j].parent = paths[a].parent
                            /\ ~paths[j].matched
                            /\ ChildPos(paths, j) > ChildPos(paths, a)

---------------------------------------------------------------------------
(* C17 *)

\* C17: move_down.  From every reachable state it changes nothing when
\* current_lines = 0 or index() = current_lines - 1; otherwise it adds one
\* to offset alone when line_pos is the bottom row of the window and one to
\* line_pos alone when it is not; and from index() <= current_lines - 1 it
\* leaves index() <= current_lines - 1.
C17_MoveDown ==
    LET t == TheTui
        a == move_down(TheTui)
    IN /\ (t.current_lines = 0 \/ index(t) = t.current_lines - 1) => a = t
       /\ (t.current_lines # 0 /\ index(t) # t.current_lines - 1) =>
              IF t.line_pos = t.display_lines - 3
              THEN a = [t EXCEPT !.offset = t.offset + 1]
              ELSE a = [t EXCEPT !.line_pos = t.line_pos + 1]
       /\ index(t) <= t.current_lines - 1 => index(a) <= a.current_lines - 1

\* move_down has just stopped at the last line of a scrolled list, on the
\* bottom row of the window.
C17_Witness ==
    /\ last.op = "move_down"
    /\ offset > 0
    /\ line_pos = display_lines - 3
    /\ offset + line_pos = current_lines - 1

---------------------------------------------------------------------------
(* C18 *)

\* C18: move_up.  From every reachable state it changes nothing when
\* index() = 0; it takes one from offset alone when line_pos = 0 and
\* offset > 0; otherwise it takes one from line_pos alone; and neither
\* counter goes below 0.
C18_MoveUp ==
    LET t == TheTui
        a == move_up(TheTui)
    IN /\ index(t) = 0 => a = t
       /\ (t.line_pos = 0 /\ t.offset > 0) =>
              a = [t EXCEPT !.offset = t.offset - 1]
       /\ (index(t) # 0 /\ ~(t.line_pos = 0 /\ t.offset > 0)) =>
              a = [t EXCEPT !.line_pos = t.line_pos - 1]
       /\ a.offset >= 0
       /\ a.line_pos >= 0

\* move_up has just scrolled the window back by one line.
C18_Witness ==
    /\ last.op = "move_up"
    /\ line_pos = 0
    /\ offset > 0
    /\ offset + 1 < current_lines

---------------------------------------------------------------------------
(* C19 *)

\* C19: paging.  From every reachable state page_up leaves offset and
\* line_pos at 0 or more; page_down changes nothing when current_lines = 0,
\* leaves index() <= current_lines - 1 when current_lines > 0, and leaves
\* index() = current_lines - 1 when a jump by display_lines would pass the
\* last line.
C19_Paging ==
    LET t == TheTui
        u == page_up(TheTui)
        d == page_down(TheTui)
    IN /\ u.offset >= 0
       /\ u.line_pos >= 0
       /\ t.current_lines = 0 => d = t
       /\ t.current_lines > 0 => index(d) <= t.current_lines - 1
       /\ (t.current_lines > 0 /\ index(t) + t.display_lines > t.current_lines - 1)
              => index(d) = t.current_lines - 1

\* page_down has just snapped to the last line of a list longer than the
\* window, keeping a row below the top one.
C19_Witness ==
    /\ last.op = "page_down"
    /\ current_lines > display_lines
    /\ line_pos > 0
    /\ offset + line_pos = current_lines - 1

---------------------------------------------------------------------------
(* C20 *)

\* C20: dirty flag.  After an operation of the viewport the query is marked
\* changed exactly when the operation changed its content; a render leaves
\* it unmarked; and after every render the text the tree was last filtered
\* with is the query displayed.
C20_DirtyFlag ==
    /\ (last.op \notin {"new", "render"} /\ ~panicked) =>
           (chars_changed <=> last.arg = 1)
    /\ (last.op = "render" /\ ~panicked) =>
           (~chars_changed /\ filter_text = chars)

---------------------------------------------------------------------------
(* C21 *)

\* The query before and from the cursor.
BeforeCursor == SubSeq(chars, 1, curs_pos)
FromCursor == SubSeq(chars, curs_pos + 1, Len(chars))

\* C21 as claimed: for every query and cursor, stash removes the text
\* between the cursor and the end, stores exactly that text in the stash
\* and keeps the text before the cursor in the query.
C21_StashToEnd ==
    ~panicked =>
        /\ stash(TheTui).stash = FromCursor
        /\ stash(TheTui).chars = BeforeCursor

\* C21 as amended: stash removes the text before the cursor, stores exactly
\* that text in the stash, keeps the text from the cursor to the end in the
\* query and puts the cursor at 0.
C21_StashToStart ==
    ~panicked =>
        /\ stash(TheTui).stash = BeforeCursor
        /\ stash(TheTui).chars = FromCursor
        /\ stash(TheTui).curs_pos = 0

\* stash has just cut a query at a cursor inside it.
C21_Witness ==
    /\ last = [op |-> "stash", arg |-> 1]
    /\ stash_buf # <<>>
    /\ chars # <<>>
    /\ stash_buf # chars

---------------------------------------------------------------------------
(* C22 *)

\* The number of characters of cs left before position i when the spaces
\* (sp) or the other characters (~sp) that end there are skipped.
RECURSIVE SkipBack(_, _, _)
SkipBack(cs, i, sp) ==
    IF i > 0 /\ ((cs[i] = SPACE) <=> sp) THEN SkipBack(cs, i - 1, sp) ELSE i

\* The start of the word before position i: the spaces before i, then the
\* word before them.
WordStart(cs, i) == SkipBack(cs, SkipBack(cs, i, TRUE), FALSE)

\* C22: word_stash.  For every query and cursor p it does not panic; at
\* p = 0 it changes nothing; at p >= 1 it removes the word before the
\* cursor with the spaces between it and the cursor and nothing before the
\* word, stores the removed text in the stash, leaves the cursor at the
\* start of the removed text and the text after the cursor untouched.
C22_WordStash ==
    ~panicked =>
        LET a == word_stash(TheTui)
            start == WordStart(chars, curs_pos)
        IN /\ ~a.panicked
           /\ curs_pos = 0 => a = TheTui
           /\ curs_pos >= 1 =>
                  /\ a.chars = SubSeq(chars, 1, start) \o FromCursor
                  /\ a.stash = SubSeq(chars, start + 1, curs_pos)
                  /\ a.curs_pos = start

---------------------------------------------------------------------------
(* C23 *)

\* C23: single-slot stash.  pop inserts the stash at the cursor, advances
\* the cursor by its length and leaves the stash as it is; what a stash or
\* a word_stash (at a cursor of 1 or more, where it cuts) has cut, whatever
\* was cut before, is what the next pop puts back, so that the query is as
\* it was before the cut.
C23_SingleSlotStash ==
    ~panicked =>
        LET a == pop(TheTui)
            s == stash(TheTui)
            w == word_stash(TheTui)
        IN /\ a.chars = BeforeCursor \o stash_buf \o FromCursor
           /\ a.curs_pos = curs_pos + Len(stash_buf)
           /\ a.stash = stash_buf
           /\ pop(s).chars = chars
           /\ pop(s).stash = BeforeCursor
           /\ (curs_pos >= 1 /\ ~w.panicked) =>
                  /\ pop(w).chars = chars
                  /\ pop(w).curs_pos = curs_pos

\* pop has just put the stash back behind a text typed since the cut.
C23_Witness ==
    /\ last = [op |-> "pop", arg |-> 1]
    /\ stash_buf # <<>>
    /\ curs_pos > Len(stash_buf)


---------------------------------------------------------------------------
(* C26 *)

\* b is a strict, order-preserving prefix of a.
StrictPrefix(b, a) ==
    /\ Len(b) < Len(a)
    /\ \A i \in 1..Len(b) : a[i] = b[i]

\* C26: parent-prefix invariant.  After linking a list whose entries are all
\* descendants of its first element, the first element has no parent and
\* every other node has a parent whose components are a strict prefix of
\* the node's own; is_child_of(a, b) holds exactly when b's components are a
\* strict prefix of a's.
C26_ParentPrefix ==
    last.op = "from_paths" =>
        /\ paths[1].parent = 0
        /\ \A k \in 2..Len(paths) :
              /\ paths[k].parent \in 1..Len(paths)
              /\ StrictPrefix(paths[paths[k].parent].components,
                              paths[k].components)
        /\ \A j, k \in 1..Len(paths) :
              is_child_of(paths[j], paths[k])
                  <=> StrictPrefix(paths[k].components, paths[j].components)

\* A linked list with a node two levels below the root, and one with a node
\* whose parent is not its immediate directory (the case of C1).
C26_Witness ==
    /\ last.op = "from_paths"
    /\ \E k \in 2..Len(paths) :
          /\ paths[k].parent # 0
          /\ PathLen(paths[paths[k].parent]) < PathLen(paths[k]) - 1

---------------------------------------------------------------------------
(* C29 *)

\* C29: line count equals shown count.  In every state reachable by filter,
\* collapse_over and flip_open, as_lines() returns exactly n_matches lines:
\* the number info_line reports as shown and tree_string takes as the number
\* of lines to produce.
C29_LineCount == Len(as_lines(TheTree)) = n_matches

\* The same with every directory open.
C29_LineCountAllOpen ==
    (\A k \in 1..Len(paths) : paths[k].open)
        => Len(as_lines(TheTree)) = n_matches

---------------------------------------------------------------------------
(* C30 *)

\* The nodes match_paths marks in the tree of the one entry s.
MarkedWith(s, patterns) ==
    LET ps == match_paths(reset_matched(link_paths(create_paths({s})), FALSE),
                          patterns)
    IN { k \in 1..Len(ps) : ps[k].matched }

\* C30: pattern reduction preserves matching.  For every string s and every
\* pattern list P, s contains every pattern of P if and only if it contains
\* every pattern of reduce_patterns(P); so match_paths marks the same nodes
\* with the reduced patterns as with the original ones.
C30_ReductionPreservesMatching ==
    /\ (last.op \in {"reduce_patterns", "match_paths"}) =>
           \A s \in Basenames :
               matches(s, hl_patterns) <=> matches(s, hl_reduced)
    /\ last.op = "match_paths" =>
           MarkedWith(hl_basename, hl_patterns)
               = MarkedWith(hl_basename, hl_reduced)

\* A pattern has been dropped because a longer one contains it, and a
\* basename holds the shorter one only.
C30_Witness ==
    /\ last.op = "match_paths"
    /\ \E i, j \in 1..Len(hl_patterns) :
          /\ hl_patterns[i] # hl_patterns[j]
          /\ Contains(hl_patterns[j], hl_patterns[i])
          /\ Contains(hl_basename, hl_patterns[i])
          /\ ~Contains(hl_basename, hl_patterns[j])
    /\ Len(hl_reduced) = 1

---------------------------------------------------------------------------
(* The numeric command-line arguments (args.rs, utils.rs). *)

\* The longest value given to an option.
MaxArgLen == 2

PLUS == 43
ZERO == 48
NINE == 57

\* The least and the default value of --n-collapse and of --n-lines.
N_COLLAPSE_MIN == 0
N_COLLAPSE_DEFAULT == 10
N_LINES_MIN == 3
N_LINES_DEFAULT == 20

\* The status utils::exit ends the process with.
EXIT_FAILURE == 1

\* The value of a string of decimal digits.
RECURSIVE DigitsValue(_)
DigitsValue(ds) ==
    IF ds = <<>> THEN 0
    ELSE DigitsValue(SubSeq(ds, 1, Len(ds) - 1)) * 10 + (ds[Len(ds)] - ZERO)

\* str::parse::<usize>: Ok(v) as <<v>>, Err as <<>>.  An optional '+', then
\* one decimal digit or more; nothing else is accepted.  The values of the
\* strings of the model are far below usize::MAX.
str_parse(value) ==
    LET digits == IF value # <<>> /\ value[1] = PLUS THEN Tail(value)
                  ELSE value
    IN IF digits = <<>> THEN <<>>
       ELSE IF \E i \in 1..Len(digits) : digits[i] \notin ZERO..NINE THEN <<>>
       ELSE <<DigitsValue(digits)>>

\* utils::exit: the message goes to standard error and the process ends
\* with status 1.
exit(msg) == [value |-> None, exit |-> <<EXIT_FAILURE>>, stderr |-> msg]

\* parse_usize as it would be without the test against min.
parse_usize_NoMin(given, arg, min) ==
    IF given # None THEN
        LET r == str_parse(given[1]) IN
        IF r # <<>> THEN [value |-> <<r[1]>>, exit |-> None, stderr |-> ""]
        ELSE exit("invalid value for option")
    ELSE [value |-> None, exit |-> None, stderr |-> ""]

\* parse_usize: what it returns, or the exit it makes.
parse_usize(given, arg, min) ==
    IF given # None THEN
        LET r == str_parse(given[1]) IN
        IF r # <<>> THEN
            IF r[1] < min THEN exit("option must be >= min")
            ELSE [value |-> <<r[1]>>, exit |-> None, stderr |-> ""]
        ELSE exit("invalid value for option")
    ELSE [value |-> None, exit |-> None, stderr |-> ""]

\* Option::unwrap_or
unwrap_or(opt, default) == IF opt = None THEN default ELSE opt[1]

\* The characters of the values: '+', '0', '2', '3' and 'x'.
ArgChars == { PLUS, ZERO, 50, 51, 120 }

RECURSIVE ArgStrs(_)
ArgStrs(k) ==
    IF k = 0 THEN { <<>> }
    ELSE { Append(v, c) : v \in ArgStrs(k - 1), c \in ArgChars }

\* What value_of returns: None, or Some(value).
GivenValues ==
    { None } \cup { <<v>> : v \in UNION { ArgStrs(k) : k \in 0..MaxArgLen } }

\* SpecArgs: args::collect on every pair of option values.
InitArgs ==
    /\ argv \in [n_collapse : GivenValues, n_lines : GivenValues]
    /\ args = [n_collapse |-> None, n_lines |-> None]
    /\ exit_code = None
    /\ stderr = ""
    /\ stdout = <<>>
    /\ raw_mode = FALSE
    /\ last = [op |-> "get_matches", arg |-> 0]
    /\ TreeIdle
    /\ TuiIdle
    /\ MatchIdle

\* n_collapse: parse_usize(matches.value_of("n_collapse"), "n_collapse", 0)
\*                 .unwrap_or(10)
CollectNCollapse ==
    /\ last.op = "get_matches"
    /\ LET r == parse_usize(argv.n_collapse, "n_collapse", N_COLLAPSE_MIN) IN
       /\ exit_code' = r.exit
       /\ stderr' = r.stderr
       /\ args' = IF r.exit = None
                  THEN [args EXCEPT !.n_collapse =
                            <<unwrap_or(r.value, N_COLLAPSE_DEFAULT)>>]
                  ELSE args
    /\ last' = [op |-> "n_collapse", arg |-> 0]
    /\ UNCHANGED <<argv, stdout, raw_mode>>
    /\ UNCHANGED tree_vars
    /\ UNCHANGED tui_vars
    /\ UNCHANGED match_vars

\* n_lines: parse_usize(matches.value_of("n_lines"), "n_lines", 3)
\*              .unwrap_or(20)
CollectNLines ==
    /\ last.op = "n_collapse"
    /\ exit_code = None
    /\ LET r == parse_usize(argv.n_lines, "n_lines", N_LINES_MIN) IN
       /\ exit_code' = r.exit
       /\ stderr' = r.stderr
       /\ args' = IF r.exit = None
                  THEN [args EXCEPT !.n_lines =
                            <<unwrap_or(r.value, N_LINES_DEFAULT)>>]
                  ELSE args
    /\ last' = [op |-> "n_lines", arg |-> 0]
    /\ UNCHANGED <<argv, stdout, raw_mode>>
    /\ UNCHANGED tree_vars
    /\ UNCHANGED tui_vars
    /\ UNCHANGED match_vars

NextArgs ==
    \/ CollectNCollapse
    \/ CollectNLines

SpecArgs == InitArgs /\ [][NextArgs]_vars

---------------------------------------------------------------------------
(* C27 *)

\* A numeral: one decimal digit or more, after at most one '+'.
IsNumeral(v) ==
    \E sign \in { <<>>, <<PLUS>> } :
        \E n \in 1..Len(v) :
            /\ Len(v) = Len(sign) + n
            /\ SubSeq(v, 1, Len(sign)) = sign
            /\ \A i \in (Len(sign) + 1)..Len(v) : v[i] \in ZERO..NINE

\* Ten to the k.
RECURSIVE Pow10(_)
Pow10(k) == IF k = 0 THEN 1 ELSE 10 * Pow10(k - 1)

\* The number a numeral writes: each digit weighs ten to its distance from
\* the end.
RECURSIVE NumeralValue(_)
NumeralValue(v) ==
    IF v = <<>> THEN 0
    ELSE (IF v[1] = PLUS THEN 0 ELSE (v[1] - ZERO) * Pow10(Len(v) - 1))
         + NumeralValue(Tail(v))

\* C27: numeric command-line arguments.  parse_usize returns None when the
\* option is absent and Some(v) when the value parses to v >= min; when the
\* value is unparsable or v < min the process ends with exit code 1, with a
\* message on standard error, and no value is returned: args::collect never
\* yields a viewport line count below 3.
C27_NumericArguments ==
    /\ \A given \in { argv.n_collapse, argv.n_lines } :
         \A min \in { N_COLLAPSE_MIN, N_LINES_MIN } :
           LET r == parse_usize(given, "n", min)
               ok == /\ given # None
                     /\ IsNumeral(given[1])
                     /\ NumeralValue(given[1]) >= min
           IN /\ given = None => (r.value = None /\ r.exit = None)
              /\ ok => (r.value = <<NumeralValue(given[1])>> /\ r.exit = None)
              /\ (given # None /\ ~ok) =>
                     /\ r.exit = <<1>>
                     /\ r.value = None
                     /\ r.stderr # ""
    /\ exit_code # None =>
         /\ exit_code = <<1>>
         /\ stderr # ""
         /\ args.n_lines = None
    /\ (last.op = "n_lines" /\ exit_code = None) =>
         /\ args.n_lines # None
         /\ args.n_lines[1] >= 3
         /\ args.n_collapse # None

\* --n-lines was given a numeral below 3 and the process has ended.
C27_Witness ==
    /\ last.op = "n_lines"
    /\ argv.n_lines # None
    /\ IsNumeral(argv.n_lines[1])
    /\ NumeralValue(argv.n_lines[1]) < 3
    /\ exit_code = <<1>>

---------------------------------------------------------------------------
(* SpecSession: the event loop over a tree and its viewport.  Every key    *)
(* event runs one operation: a move or a page, an edit of the query, a     *)
(* flip of the highlighted line, or one of the keys that end the loop;     *)
(* the edits are insert_char at the end of the query, backspace and        *)
(* word_stash;                                                             *)
(* then the tree is filtered when the query changed, and its lines are     *)
(* rendered.  The terminal is in raw mode from Tui::new until the Tui is   *)
(* released.                                                               *)

\* The longest query typed in a session.
MaxSessionChars == 1

\* The exit status after accept and abort, and after an interrupt.
EXIT_SUCCESS == 0
EXIT_INTERRUPT == 130

\* The listings of the sessions: a directory with two files.
SessionListings == { { <<97>>, <<97, 47, 97>>, <<97, 47, 98>> } }

\* The characters typed: 'b', which one file holds, and 'c', which none
\* does.
SessionChars == { 98, 99 }

\* print_paths as it would be if it skipped the nodes the filter hides.
RECURSIVE print_paths_Matched(_)
print_paths_Matched(ps) ==
    IF ps = <<>> THEN <<>>
    ELSE (IF Head(ps).selected /\ Head(ps).matched
          THEN Head(ps).joined \o <<SPACE>> ELSE <<>>)
         \o print_paths_Matched(Tail(ps))

\* Tui::print_paths: what it writes once the screen is cleared.
RECURSIVE print_paths(_)
print_paths(ps) ==
    IF ps = <<>> THEN <<>>
    ELSE (IF Head(ps).selected THEN Head(ps).joined \o <<SPACE>> ELSE <<>>)
         \o print_paths(Tail(ps))

\* The accept key: with nothing selected the highlighted line is selected;
\* then the selected paths are written.
accept(t, ui) ==
    LET t1 == IF t.n_selected = 0 THEN flip_selected(t, index(ui)) ELSE t
    IN [tree |-> t1, stdout |-> print_paths(t1.paths)]

\* The exit status of the process after the key that ended the loop.
exit_status(key) ==
    IF key = "interrupt" THEN EXIT_INTERRUPT ELSE EXIT_SUCCESS

\* The keys that end the loop.
EndKeys == { "accept", "abort", "interrupt" }

InitSession ==
    /\ \E listing \in SessionListings :
         \E dl \in N_LINES_MIN..(N_LINES_MIN + 1) :
           LET t == from_paths(create_paths(listing))
               ui == TuiNew(dl, t.n_matches)
           IN /\ paths = t.paths
              /\ n_paths = t.n_paths
              /\ n_matches = t.n_matches
              /\ n_selected = t.n_selected
              /\ offset = ui.offset
              /\ line_pos = ui.line_pos
              /\ current_lines = ui.current_lines
              /\ display_lines = ui.display_lines
              /\ chars_changed = ui.chars_changed
              /\ chars = ui.chars
              /\ curs_pos = ui.curs_pos
              /\ panicked = ui.panicked
              /\ stash_buf = ui.stash
              /\ lines_len = t.n_matches
    /\ filter_text = <<>>
    /\ last = [op |-> "new", arg |-> 0]
    /\ argv = [n_collapse |-> None, n_lines |-> None]
    /\ args = [n_collapse |-> None, n_lines |-> None]
    /\ exit_code = None
    /\ stderr = ""
    /\ stdout = <<>>
    /\ raw_mode = TRUE
    /\ MatchIdle

TypeChar(c) ==
    /\ Len(chars) < MaxSessionChars
    /\ Key("insert_char", insert_char(TheTui, c))

\* tree.flip_open(ui.index())
FlipOpenKey ==
    /\ AtKey
    /\ SetTree(flip_open(TheTree, index(TheTui)))
    /\ last' = [op |-> "flip_open",
                arg |-> IF ith(TheTree, index(TheTui)) # 0 THEN 1 ELSE 0]
    /\ UNCHANGED tui_vars
    /\ UNCHANGED match_vars
    /\ UNCHANGED proc_vars

\* tree.flip_selected(ui.index())
FlipSelectedKey ==
    /\ AtKey
    /\ SetTree(flip_selected(TheTree, index(TheTui)))
    /\ last' = [op |-> "flip_selected",
                arg |-> IF ith(TheTree, index(TheTui)) # 0 THEN 1 ELSE 0]
    /\ UNCHANGED tui_vars
    /\ UNCHANGED match_vars
    /\ UNCHANGED proc_vars

\* The end of a loop iteration: tree.filter(query) when the query is marked
\* changed, then ui.render(tree.info_line(), tree.as_lines()).  last.arg is
\* 1 for a changed query and a list that shrank to at most index() lines,
\* and 2 for a list that shrank though the query did not change.
SessionRender ==
    /\ last.op \notin ({"render"} \cup EndKeys)
    /\ ~panicked
    /\ LET t == IF chars_changed THEN filter(TheTree, chars) ELSE TheTree
           len == Len(as_lines(t))
       IN /\ SetTree(t)
          /\ lines_len' = len
          /\ filter_text' = IF chars_changed THEN chars ELSE filter_text
          /\ SetTui(render(TheTui, len))
          /\ last' = [op |-> "render",
                      arg |-> IF chars_changed
                              THEN (IF /\ len < index(TheTui) + 1
                                       /\ len < current_lines
                                    THEN 1 ELSE 0)
                              ELSE (IF len < current_lines THEN 2 ELSE 0)]
    /\ UNCHANGED match_vars
    /\ UNCHANGED proc_vars

\* The accept key.  last.arg is 1 when nothing was selected.
Accept ==
    /\ AtKey
    /\ SetTree(accept(TheTree, TheTui).tree)
    /\ stdout' = accept(TheTree, TheTui).stdout
    /\ last' = [op |-> "accept", arg |-> IF n_selected = 0 THEN 1 ELSE 0]
    /\ UNCHANGED <<argv, args, exit_code, stderr, raw_mode>>
    /\ UNCHANGED tui_vars
    /\ UNCHANGED match_vars

\* The abort key: Key::Esc => break
Abort ==
    /\ AtKey
    /\ last' = [op |-> "abort", arg |-> 0]
    /\ UNCHANGED tree_vars
    /\ UNCHANGED tui_vars
    /\ UNCHANGED match_vars
    /\ UNCHANGED proc_vars

\* The interrupt key, Ctrl-C.
Interrupt ==
    /\ AtKey
    /\ last' = [op |-> "interrupt", arg |-> 0]
    /\ UNCHANGED tree_vars
    /\ UNCHANGED tui_vars
    /\ UNCHANGED match_vars
    /\ UNCHANGED proc_vars

\* The loop has ended: the Tui is released, and the terminal leaves raw
\* mode.
Release ==
    /\ last.op \in EndKeys
    /\ raw_mode
    /\ raw_mode' = FALSE
    /\ UNCHANGED <<argv, args, exit_code, stderr, stdout>>
    /\ UNCHANGED last
    /\ UNCHANGED tree_vars
    /\ UNCHANGED tui_vars
    /\ UNCHANGED match_vars

\* The process ends.
Terminate ==
    /\ last.op \in EndKeys
    /\ ~raw_mode
    /\ exit_code = None
    /\ exit_code' = <<exit_status(last.op)>>
    /\ UNCHANGED <<argv, args, stderr, stdout, raw_mode>>
    /\ UNCHANGED last
    /\ UNCHANGED tree_vars
    /\ UNCHANGED tui_vars
    /\ UNCHANGED match_vars

NextSession ==
    \/ MoveUp
    \/ MoveDown
    \/ PageUp
    \/ PageDown
    \/ \E c \in SessionChars : TypeChar(c)
    \/ Backspace
    \/ WordStash
    \/ FlipOpenKey
    \/ FlipSelectedKey
    \/ SessionRender
    \/ Accept
    \/ Abort
    \/ Interrupt
    \/ Release
    \/ Terminate

SpecSession == InitSession /\ [][NextSession]_vars

\* The same with the steps after the loop taken: nothing but the read of a
\* key suspends the process.
SpecSessionLive ==
    /\ InitSession
    /\ [][NextSession]_vars
    /\ WF_vars(Release)
    /\ WF_vars(Terminate)

---------------------------------------------------------------------------
(* C24 *)

\* The joined paths of the nodes of S, in list order from node k on.
RECURSIVE JoinedInOrder(_, _, _)
JoinedInOrder(ps, S, k) ==
    IF k > Len(ps) THEN <<>>
    ELSE (IF k \in S THEN <<ps[k].joined>> ELSE <<>>)
         \o JoinedInOrder(ps, S, k + 1)

\* The paths a written text holds: its runs of characters other than the
\* space.
WrittenPaths(text) == NonEmpty(Split(text, SPACE))

---------------------------------------------------------------------------
(* C25 *)

\* The loop has ended: the process is gone, or the terminal is released.
LoopEnded == panicked \/ ~raw_mode \/ exit_code # None

C25_ExitPathsUnlessPanic ==
    /\ []((LoopEnded /\ ~panicked) => last.op \in EndKeys)
    /\ [](exit_code # None => ~raw_mode)
    /\ [](last.op = "abort" => (stdout = <<>> /\ exit_code \in {None, <<0>>}))
    /\ [](last.op = "interrupt" => exit_code \in {None, <<130>>})
    /\ (last.op = "abort" ~> exit_code = <<0>>)
    /\ (last.op = "interrupt" ~> exit_code = <<130>>)

---------------------------------------------------------------------------
(* C28 *)

\* C28: session safety.  In a session where every key event runs one
\* operation and then render(as_lines()), at every render offset is at most
\* the number of lines, so render does not panic, and after every render
\* index() <= max(1, current_lines) - 1.
C28_SessionSafety ==
    last.op = "render" =>
        /\ ~panicked
        /\ current_lines = Len(as_lines(TheTree))
        /\ offset <= current_lines
        /\ index(TheTui) <= Max(1, current_lines) - 1

\* The lines below the highlighted one have gone though the query did not
\* change, the window is scrolled, and the lines have been rendered.
C28_Witness ==
    /\ last = [op |-> "render", arg |-> 2]
    /\ offset > 0
    /\ index(TheTui) = current_lines - 1

---------------------------------------------------------------------------
(* SpecLabel: the label match_paths builds for one basename, on basenames  *)
(* and patterns that hold a character of two bytes.                        *)

\* The longest basename labelled.
MaxLabelLen == 3

\* The characters of the basenames and patterns: 'a' and U+00E9, which
\* UTF-8 writes in two bytes.
LabelAlphabet == { 97, 233 }

RECURSIVE LabelStrs(_)
LabelStrs(k) ==
    IF k = 0 THEN { <<>> }
    ELSE { Append(s, c) : s \in LabelStrs(k - 1), c \in LabelAlphabet }

\* The pattern lists: at most two patterns of one or two characters.
LabelPatternLists ==
    LET ps == LabelStrs(1) \cup LabelStrs(2)
    IN { <<>> } \cup { <<x>> : x \in ps } \cup { <<x, y>> : x \in ps, y \in ps }

InitLabel ==
    /\ hl_patterns \in LabelPatternLists
    /\ hl_basename \in UNION { LabelStrs(k) : k \in 1..MaxLabelLen }
    /\ hl_reduced = <<>>
    /\ hl_idxs = <<>>
    /\ hl_text = <<>>
    /\ last = [op |-> "basename", arg |-> 0]
    /\ TreeIdle
    /\ TuiIdle
    /\ ProcIdle

\* The body of the loop of match_paths on the basename, with the patterns
\* filter hands it.
Label ==
    /\ last.op = "basename"
    /\ hl_reduced' = reduce_patterns(hl_patterns)
    /\ hl_idxs' = merge_adjacent_indices(match_indices(hl_reduced',
                                                       hl_basename))
    /\ hl_text' = wrap_matches_in_color(hl_basename, hl_idxs')
    /\ last' = [op |-> "wrap_matches_in_color", arg |-> 0]
    /\ UNCHANGED <<hl_patterns, hl_basename>>
    /\ UNCHANGED tree_vars
    /\ UNCHANGED tui_vars
    /\ UNCHANGED proc_vars

NextLabel == Label

SpecLabel == InitLabel /\ [][NextLabel]_vars

---------------------------------------------------------------------------
(* C31 *)

\* The markers of a label, in order.
RECURSIVE MarkersOf(_)
MarkersOf(label) ==
    IF label = <<>> THEN <<>>
    ELSE (IF Head(label) \in {BLUE, RESET} THEN <<Head(label)>> ELSE <<>>)
         \o MarkersOf(Tail(label))

\* Start and end markers alternate, from a start marker to an end marker.
Balanced(ms) ==
    /\ Len(ms) % 2 = 0
    /\ \A i \in 1..Len(ms) : ms[i] = (IF i % 2 = 1 THEN BLUE ELSE RESET)

\* The basename with an end marker at the byte offset where a span ends and
\* a start marker at the byte offset where a span starts, from the
\* character of 0-based index i on.
RECURSIVE MarkedFrom(_, _, _)
MarkedFrom(bname, idxs, i) ==
    LET b == ByteIndex(bname, i)
        closing == IF \E k \in 1..Len(idxs) : idxs[k].end = b
                   THEN <<RESET>> ELSE <<>>
        opening == IF \E k \in 1..Len(idxs) : idxs[k].start = b
                   THEN <<BLUE>> ELSE <<>>
    IN IF i = Len(bname) THEN closing
       ELSE closing \o opening \o <<bname[i + 1]>>
            \o MarkedFrom(bname, idxs, i + 1)

\* C31: label construction preserves the text.  For every basename, those
\* with characters of more than one byte included, and every pattern set,
\* the label is the basename with one start marker before and one end marker
\* after each merged highlight span and nothing else changed: without its
\* markers the label is the basename, and the markers alternate and are
\* balanced.
C31_LabelPreservesText ==
    last.op = "wrap_matches_in_color" =>
        /\ hl_text = MarkedFrom(hl_basename, hl_idxs, 0)
        /\ StripMarkers(hl_text) = hl_basename
        /\ Balanced(MarkersOf(hl_text))
        /\ Len(MarkersOf(hl_text)) = 2 * Len(hl_idxs)

\* The same for the basenames of one-byte characters whose spans do not
\* overlap.
C31_LabelPreservesAsciiText ==
    (/\ \A i \in 1..Len(hl_basename) : Utf8Len(hl_basename[i]) = 1
     /\ \A i \in 1..(Len(hl_idxs) - 1) : hl_idxs[i].end < hl_idxs[i + 1].start)
        => C31_LabelPreservesText

---------------------------------------------------------------------------
(* C32 *)

\* The depth-first preorder of the nodes linked below n, n first, the
\* children in the order of the children list.
RECURSIVE Preorder(_, _)
RECURSIVE PreorderAll(_, _)
PreorderAll(ps, cs) ==
    IF cs = <<>> THEN <<>>
    ELSE Preorder(ps, Head(cs)) \o PreorderAll(ps, Tail(cs))

Preorder(ps, n) == <<n>> \o PreorderAll(ps, ps[n].children)

\* The number of times node k stands in a children list.
ChildSlots(ps, k) ==
    Cardinality({ <<p, c>> \in (1..Len(ps)) \X (1..Len(ps)) :
                    c <= Len(ps[p].children) /\ ps[p].children[c] = k })

\* C32: linking covers the list in order.  After link_paths the depth-first
\* preorder of the tree below the root is the input list, every node once
\* and in input order; every other node than the root stands in exactly one
\* children list, that of its parent; siblings keep their input order; and
\* the root has as many descendants as there are nodes but itself.
C32_LinkingCoversInOrder ==
    last.op = "from_paths" =>
        /\ Preorder(paths, 1) = [i \in 1..Len(paths) |-> i]
        /\ ChildSlots(paths, 1) = 0
        /\ \A k \in 2..Len(paths) :
               /\ ChildSlots(paths, k) = 1
               /\ \E c \in 1..Len(paths[paths[k].parent].children) :
                      paths[paths[k].parent].children[c] = k
        /\ \A p \in 1..Len(paths) :
               \A c \in 1..(Len(paths[p].children) - 1) :
                   paths[p].children[c] < paths[p].children[c + 1]
        /\ n_descendants(paths, 1) = Len(paths) - 1

\* A linked list in which a directory with an entry is followed by a
\* sibling of it: the recursion has gone down and come back.
C32_Witness ==
    /\ last.op = "from_paths"
    /\ \E k \in 2..Len(paths) :
           /\ paths[k].children # <<>>
           /\ \E j \in (k + 1)..Len(paths) :
                  /\ paths[j].parent = paths[k].parent
                  /\ \E h \in (k + 1)..(j - 1) : paths[h].parent = k

---------------------------------------------------------------------------
(* C33 *)

\* C33: the query-cursor invariant.  After any sequence of insert_char,
\* backspace, delete, move_left, move_right, move_left_word, home, end,
\* stash, word_stash and pop that has run to its end, the cursor is an
\* offset into the query buffer: 0 <= curs_pos <= chars.len().
C33_CursorInBuffer ==
    ~panicked => (0 <= curs_pos /\ curs_pos <= Len(chars))

\* pop has just put a stash back and left the cursor at the end of the
\* buffer.
C33_Witness ==
    /\ last.op = "pop"
    /\ ~panicked
    /\ stash_buf # <<>>
    /\ Len(chars) > Len(stash_buf)
    /\ curs_pos = Len(chars)

---------------------------------------------------------------------------
(* C34 *)

\* C34: move_left_word is safe.  For every query buffer and every cursor in
\* 0..=len it reads no character outside the buffer (it does not panic),
\* leaves the buffer as it is and leaves the cursor at or before where it
\* was.
C34_MoveLeftWordSafe ==
    ~panicked =>
        LET a == move_left_word(TheTui)
        IN /\ ~a.panicked
           /\ a.chars = chars
           /\ a.curs_pos <= curs_pos

\* The same for the cursors before the end of the buffer, and for the
\* empty buffer.
C34_MoveLeftWordSafeInside ==
    (curs_pos < Len(chars) \/ chars = <<>>) => C34_MoveLeftWordSafe

---------------------------------------------------------------------------
(* C35 *)

\* C35: the cut-then-paste round trip.  For every query buffer and cursor
\* position, stash followed at once by pop, and word_stash followed at once
\* by pop, give back the buffer and the cursor that were there before the
\* cut.
C35_CutPasteRoundTrip ==
    ~panicked =>
        LET s == stash(TheTui)
            w == word_stash(TheTui)
        IN /\ pop(s).chars = chars
           /\ pop(s).curs_pos = curs_pos
           /\ ~w.panicked
           /\ pop(w).chars = chars
           /\ pop(w).curs_pos = curs_pos

\* The round trip of stash alone.
C35_StashPopRoundTrip ==
    ~panicked =>
        /\ pop(stash(TheTui)).chars = chars
        /\ pop(stash(TheTui)).curs_pos = curs_pos

\* The round trip of word_stash where word_stash cuts and does not panic.
C35_WordStashPopRoundTrip ==
    (~panicked /\ curs_pos >= 1 /\ ~word_stash(TheTui).panicked) =>
        /\ pop(word_stash(TheTui)).chars = chars
        /\ pop(word_stash(TheTui)).curs_pos = curs_pos

\* The round trip of word_stash where it does not panic, the cursor at 0
\* included.
C35_WordStashPopNoPanic ==
    (~panicked /\ ~word_stash(TheTui).panicked) =>
        /\ pop(word_stash(TheTui)).chars = chars
        /\ pop(word_stash(TheTui)).curs_pos = curs_pos

---------------------------------------------------------------------------
(* C36 *)

\* What filter leaves alone, between the lists ps and qs of the nodes
\* before and after it: the nodes, their selected and open flags and their
\* links.
SameButMatches(ps, qs) ==
    /\ Len(qs) = Len(ps)
    /\ \A i \in 1..Len(ps) :
           /\ qs[i].selected = ps[i].selected
           /\ qs[i].open = ps[i].open
           /\ qs[i].parent = ps[i].parent
           /\ qs[i].children = ps[i].children
           /\ qs[i].components = ps[i].components

\* C36: the frame of filter.  filter changes the matched flags, the display
\* labels and the shown count only: no selected or open flag, no parent or
\* children link, neither n_selected nor n_paths; a selected node that the
\* filter hides stays selected and counted, a collapsed directory stays
\* collapsed.
C36_FilterFrame ==
    [][last'.op = "filter" =>
           /\ SameButMatches(paths, paths')
           /\ n_selected' = n_selected
           /\ n_paths' = n_paths
           /\ n_selected' = CountSelected(paths')]_vars

\* A filter has just hidden a selected node and left a directory closed.
C36_Witness ==
    /\ last.op = "filter"
    /\ n_selected >= 1
    /\ \E i \in 1..Len(paths) : paths[i].selected /\ ~paths[i].matched
    /\ \E i \in 1..Len(paths) : ~paths[i].open /\ paths[i].children # <<>>

---------------------------------------------------------------------------
(* C37 *)

\* C37: the toggles are involutions on a fixed index.  In every tree state
\* and for every index i, the node on line i is the same node after
\* flip_open(i), a second flip_open(i) gives back the whole tree state, and
\* a second flip_selected(i) gives back the whole tree state, n_selected
\* included; flip_open changes no selected or matched flag and
\* flip_selected no open or matched flag.
C37_TogglesAreInvolutions ==
    \A i \in Indices :
        LET o == flip_open(TheTree, i)
            s == flip_selected(TheTree, i)
        IN /\ ith(o, i) = ith(TheTree, i)
           /\ ith(s, i) = ith(TheTree, i)
           /\ flip_open(o, i) = TheTree
           /\ flip_selected(s, i) = TheTree
           /\ o.n_selected = n_selected
           /\ \A k \in 1..Len(paths) :
                  /\ o.paths[k].selected = paths[k].selected
                  /\ o.paths[k].matched = paths[k].matched
                  /\ s.paths[k].open = paths[k].open
                  /\ s.paths[k].matched = paths[k].matched
           /\ ith(TheTree, i) # 0 =>
                  /\ o.paths[ith(TheTree, i)].open = ~paths[ith(TheTree, i)].open
                  /\ s.paths[ith(TheTree, i)].selected
                         = ~paths[ith(TheTree, i)].selected

\* The second flip_selected of a line has just taken the selection back,
\* in a tree with a closed directory and a hidden node.
C37_Witness ==
    /\ last = [op |-> "flip_selected", arg |-> 1]
    /\ n_selected = 0
    /\ \E k \in 1..Len(paths) : ~paths[k].open /\ paths[k].children # <<>>
    /\ \E k \in 1..Len(paths) : ~paths[k].matched

=========================================================================
